---- MODULE Spec2Model ----
(***************************************************************************)
(* The invoice processing pipeline of app/ml: the LangGraph state graph    *)
(* ocr -> extract -> validate -> {anomaly, retry -> extract, failed} -> END *)
(* over the InvoiceState record, with every node translated from its code. *)
(*                                                                         *)
(* Conventions.  Python values that may be None, or of a type the code did *)
(* not expect, are JSON values: records tagged by `kind`.  Money is        *)
(* counted in fractions of a cent (Cents(n) is n cents), confidence in     *)
(* hundredths.  Where the code compares floats at the exact tolerance (a   *)
(* difference of exactly 0.01 or 0.02) or rounds a value that lies exactly *)
(* half-way, IEEE-754 rounding decides the outcome and both                *)
(* outcomes occur for real amounts (abs(1.10 - 1.09) > 0.01 is True,       *)
(* abs(0.03 - 0.02) > 0.01 is False), so the outcome is an oracle input    *)
(* `fp` of the operator.                                                   *)
(***************************************************************************)
EXTENDS Integers, Sequences, FiniteSets, TLC

VARIABLES
    state,      \* the InvoiceState threaded through the graph
    pc,         \* the node the graph runs next, "END", or "raised"
    args,       \* the arguments process_invoice was called with
    log,        \* history: the outcome of every node executed so far
    llm_inputs, \* history: the raw_text of every extraction chain.invoke call
    emitted,    \* history: the error list of the failure not yet retried
    first_ok,   \* history: was the first extraction result fully consistent
    anomaly_out,     \* history: what the anomaly chain.invoke call did
    whitelist_store, \* the active vendor names of the whitelist repository
    parked,     \* a second process_invoice call, while its thread is not running
    upload,     \* upload_and_process_invoice: the invoice row and the response
    probe       \* the arguments and the result of a helper applied on its own

vars == <<state, pc, args, log, llm_inputs, emitted, first_ok, anomaly_out,
          whitelist_store, parked, upload, probe>>

---------------------------------------------------------------------------
(* JSON / Python values                                                    *)

None == [kind |-> "null"]
Missing == [kind |-> "missing"]
Num(n) == [kind |-> "num", num |-> n]
Str(s) == [kind |-> "str", str |-> s]
List(q) == [kind |-> "list", items |-> q]
Dict(d) == [kind |-> "dict", d |-> d]

\* amounts are integers, counting 1/UnitsPerCent of a cent
UnitsPerCent == 2

Cents(n) == n * UnitsPerCent

\* the JSON number of an amount of n cents
Money(n) == Num(Cents(n))

\* dict.get(key): an absent key reads as None
Get(v) == IF v.kind = "missing" THEN None ELSE v

\* dict.get(key, default)
GetOr(v, default) == IF v.kind = "missing" THEN default ELSE v

\* Python truthiness: bool(v)
Truthy(v) ==
    CASE v.kind = "null" -> FALSE
      [] v.kind = "missing" -> FALSE
      [] v.kind = "num" -> v.num # 0
      [] v.kind = "str" -> v.str # ""
      [] v.kind = "list" -> v.items # <<>>
      [] OTHER -> TRUE

\* a or b
Or(a, b) == IF Truthy(a) THEN a ELSE b

---------------------------------------------------------------------------
(* Strings                                                                 *)

Whitespace == {" ", "\n", "\t"}

RECURSIVE LStrip(_)
LStrip(s) ==
    IF Len(s) > 0 /\ SubSeq(s, 1, 1) \in Whitespace
    THEN LStrip(SubSeq(s, 2, Len(s)))
    ELSE s

RECURSIVE RStrip(_)
RStrip(s) ==
    IF Len(s) > 0 /\ SubSeq(s, Len(s), Len(s)) \in Whitespace
    THEN RStrip(SubSeq(s, 1, Len(s) - 1))
    ELSE s

\* str.strip()
Strip(s) == RStrip(LStrip(s))

UpperToLower ==
    [c \in {"A", "B", "C", "D", "E", "F", "G", "H", "I", "J", "K", "L", "M",
            "N", "O", "P", "Q", "R", "S", "T", "U", "V", "W", "X", "Y", "Z"} |->
        CASE c = "A" -> "a" [] c = "B" -> "b" [] c = "C" -> "c" [] c = "D" -> "d"
          [] c = "E" -> "e" [] c = "F" -> "f" [] c = "G" -> "g" [] c = "H" -> "h"
          [] c = "I" -> "i" [] c = "J" -> "j" [] c = "K" -> "k" [] c = "L" -> "l"
          [] c = "M" -> "m" [] c = "N" -> "n" [] c = "O" -> "o" [] c = "P" -> "p"
          [] c = "Q" -> "q" [] c = "R" -> "r" [] c = "S" -> "s" [] c = "T" -> "t"
          [] c = "U" -> "u" [] c = "V" -> "v" [] c = "W" -> "w" [] c = "X" -> "x"
          [] c = "Y" -> "y" [] c = "Z" -> "z"]

RECURSIVE Lower(_)
\* str.lower()
Lower(s) ==
    IF Len(s) = 0 THEN ""
    ELSE LET c == SubSeq(s, 1, 1)
         IN (IF c \in DOMAIN UpperToLower THEN UpperToLower[c] ELSE c)
                \o Lower(SubSeq(s, 2, Len(s)))

\* sub in s
Contains(sub, s) ==
    \E i \in 1..(Len(s) - Len(sub) + 1) : SubSeq(s, i, i + Len(sub) - 1) = sub

\* s.endswith(suffix)
EndsWith(s, suffix) ==
    /\ Len(s) >= Len(suffix)
    /\ SubSeq(s, Len(s) - Len(suffix) + 1, Len(s)) = suffix

Abs(x) == IF x < 0 THEN -x ELSE x

RECURSIVE SumTotals(_)
\* sum(it["total"] for it in items)
SumTotals(items) ==
    IF items = <<>> THEN 0
    ELSE items[1].total + SumTotals(Tail(items))

---------------------------------------------------------------------------
(* PipelineStatus                                                          *)

PENDING == "pending"
EXTRACTED == "extracted"
VALIDATED == "validated"
FAILED == "failed"
ANOMALY_FLAGGED == "anomaly_flagged"
COMPLETED == "completed"

\* an entry of validation_errors: the message and the numbers formatted into it
Err(msg, nums) == [msg |-> msg, nums |-> nums]

\* what a call to an external service (backend, LLM chain) does
Raise(msg) == [kind |-> "raise", msg |-> msg]
Text(s) == [kind |-> "text", text |-> s]
Json(v) == [kind |-> "json", value |-> v]

---------------------------------------------------------------------------
(* ocr_node                                                                *)

DoclingSuffixes == {".pdf", ".png", ".jpg", ".jpeg"}

\* use_docling (ocr_node): setting on, service injected, supported suffix
UseDocling(st, cfg) ==
    /\ cfg.OCR_USE_DOCLING
    /\ cfg.docling_injected
    /\ \E suf \in DoclingSuffixes : EndsWith(st.file_path, suf)

\* use_vision (ocr_node)
UseVision(cfg) == cfg.OCR_USE_VISION_LLM /\ cfg.OLLAMA_VISION_MODEL # ""

\* The body of ocr_node's try block: the backends called, in order, and the
\* raw_text it ends with (or the exception a backend raised).
\* env gives the outcome of each backend if it is called.
OcrTry(st, cfg, env) ==
    LET eng == IF UseVision(cfg) THEN "vision_llm" ELSE "tesseract"
        first == IF UseDocling(st, cfg)
                 THEN [calls |-> <<"docling">>, out |-> env.docling]
                 ELSE [calls |-> <<>>, out |-> Text("")]
    IN  IF first.out.kind = "raise" \/ Strip(first.out.text) # ""
        THEN first
        ELSE IF EndsWith(st.file_path, ".pdf")
        THEN IF env.text_layer.kind = "raise" \/ Strip(env.text_layer.text) # ""
             THEN [calls |-> first.calls \o <<"pdfplumber">>,
                   out |-> env.text_layer]
             ELSE [calls |-> first.calls \o <<"pdfplumber", "pdf_pages_" \o eng>>,
                   out |-> env.page_ocr]
        ELSE [calls |-> first.calls \o <<"image_" \o eng>>,
              out |-> env.image_ocr]

\* ocr_node that stores the text as the backend returned it
ocr_node_untrimmed(st, cfg, env) ==
    LET r == OcrTry(st, cfg, env).out
    IN  IF r.kind = "raise"
        THEN [st EXCEPT !.raw_text = "",
                        !.status = FAILED,
                        !.validation_errors =
                            <<Err("OCR failed: " \o r.msg, <<>>)>>]
        ELSE IF Strip(r.text) = ""
        THEN [st EXCEPT !.raw_text = "",
                        !.status = FAILED,
                        !.validation_errors =
                            <<Err("No text could be extracted from file", <<>>)>>]
        ELSE [st EXCEPT !.raw_text = r.text]

ocr_node(st, cfg, env) ==
    LET r == OcrTry(st, cfg, env).out
    IN  IF r.kind = "raise"
        THEN [st EXCEPT !.raw_text = "",
                        !.status = FAILED,
                        !.validation_errors =
                            <<Err("OCR failed: " \o r.msg, <<>>)>>]
        ELSE IF Strip(r.text) = ""
        THEN [st EXCEPT !.raw_text = "",
                        !.status = FAILED,
                        !.validation_errors =
                            <<Err("No text could be extracted from file", <<>>)>>]
        ELSE [st EXCEPT !.raw_text = Strip(r.text)]

---------------------------------------------------------------------------
(* extraction_node and its line-item helpers                               *)

\* float(v) succeeds: a number, or a string holding one
CanFloat(v) == v.kind \in {"num", "numstr"}

\* _num(val, default)
_num(val, default) ==
    IF val.kind = "null" THEN default
    ELSE IF CanFloat(val) THEN val.num
    ELSE default

\* t / q for q # 0 rounded to an integer; `up` is how the float rounds when
\* the quotient lies exactly half-way
RoundDiv(t, q, up) ==
    LET sgn == IF (t < 0) = (q < 0) THEN 1 ELSE -1
        n == Abs(t)
        m == Abs(q)
        d == n \div m
        r == n % m
    IN  sgn * (IF 2 * r < m THEN d
               ELSE IF 2 * r > m THEN d + 1
               ELSE IF up THEN d + 1 ELSE d)

\* round(x, 2): the nearest whole cent; `up` is how the float rounds when x
\* lies exactly half-way
Round2(x, up) == Cents(RoundDiv(x, UnitsPerCent, up))

\* round(t / q, 2) for q # 0
RoundQuotient2(t, q, up) == Cents(RoundDiv(t, q * UnitsPerCent, up))

\* str(v) of a description value
PyStr(v) == IF v.kind = "str" THEN v.str ELSE ToString(v.num)

\* one entry of _normalize_line_items' loop (item is a dict)
NormalizeItem(d) ==
    LET total_val == IF Get(d.total) # None THEN Get(d.total) ELSE Get(d.amount)
        total == IF total_val # None
                 THEN (IF CanFloat(total_val) THEN total_val.num ELSE 0)
                 ELSE 0
        qty == _num(Or(Get(d.quantity), Get(d.qty)), 1)
        unit == _num(Or(Or(Get(d.unit_price), Get(d.rate)), Get(d.price)), 0)
        desc == Or(Or(Get(d.description), Get(d.item)), Str(""))
    IN  [description |-> Strip(PyStr(desc)),
         quantity |-> qty,
         unit_price |-> unit,
         total |-> total]

\* the loop entry that derives the unit price from every positive total
FixItemMath_always_divides(it, fp) ==
    IF it.quantity <= 0 THEN it
    ELSE LET total == IF it.total = 0 /\ it.unit_price > 0
                      THEN Round2(it.quantity * it.unit_price, fp.half)
                      ELSE it.total
             unit == IF total > 0
                     THEN RoundQuotient2(total, it.quantity, fp.half)
                     ELSE it.unit_price
         IN  [description |-> it.description,
              quantity |-> it.quantity,
              unit_price |-> unit,
              total |-> total]

\* the loop entry without the early exit on a quantity of 0 or below
FixItemMath_any_quantity(it, fp) ==
    LET total == IF it.total = 0 /\ it.unit_price > 0
                 THEN Round2(it.quantity * it.unit_price, fp.half)
                 ELSE it.total
        unit == IF it.unit_price = 0 /\ total > 0 /\ it.quantity # 0
                THEN RoundQuotient2(total, it.quantity, fp.half)
                ELSE it.unit_price
    IN  [description |-> it.description,
         quantity |-> it.quantity,
         unit_price |-> unit,
         total |-> total]

\* one entry of _fix_line_item_math's loop
FixItemMath(it, fp) ==
    IF it.quantity <= 0 THEN it
    ELSE LET total == IF it.total = 0 /\ it.unit_price > 0
                      THEN Round2(it.quantity * it.unit_price, fp.half)
                      ELSE it.total
             unit == IF it.unit_price = 0 /\ total > 0
                     THEN RoundQuotient2(total, it.quantity, fp.half)
                     ELSE it.unit_price
         IN  [description |-> it.description,
              quantity |-> it.quantity,
              unit_price |-> unit,
              total |-> total]

_fix_line_item_math(items, fp) ==
    [i \in 1..Len(items) |-> FixItemMath(items[i], fp)]

_normalize_line_items(value, fp) ==
    IF value.kind = "null" THEN <<>>
    ELSE IF value.kind = "list"
    THEN LET dicts == SelectSeq(value.items, LAMBDA x : x.kind = "dict")
         IN  _fix_line_item_math(
                 [i \in 1..Len(dicts) |-> NormalizeItem(dicts[i].d)], fp)
    ELSE <<>>

\* reconciliation that writes the corrected total even when it is negative
_fix_line_items_with_subtotal_unguarded(items, subtotal, fp) ==
    IF items = <<>> \/ subtotal.kind = "null" THEN items
    ELSE IF ~CanFloat(subtotal) THEN items
    ELSE LET sub == subtotal.num
             diff == Abs(SumTotals(items) - sub)
             n == Len(items)
             correct_last_total ==
                 Round2(sub - SumTotals(SubSeq(items, 1, n - 1)), fp.half)
             qty == items[n].quantity
         IN  IF diff < Cents(2) \/ (diff = Cents(2) /\ fp.lt02) THEN items
             ELSE [items EXCEPT
                     ![n].total = correct_last_total,
                     ![n].unit_price =
                         IF qty # 0
                         THEN RoundQuotient2(correct_last_total, qty, fp.half)
                         ELSE 0]

_fix_line_items_with_subtotal(items, subtotal, fp) ==
    IF items = <<>> \/ subtotal.kind = "null" THEN items
    ELSE IF ~CanFloat(subtotal) THEN items
    ELSE LET sub == subtotal.num
             line_total == SumTotals(items)
             diff == Abs(line_total - sub)
             n == Len(items)
             rest_total == SumTotals(SubSeq(items, 1, n - 1))
             correct_last_total == Round2(sub - rest_total, fp.half)
             qty == items[n].quantity
         IN  IF diff < Cents(2) \/ (diff = Cents(2) /\ fp.lt02) THEN items
             ELSE IF correct_last_total < 0 THEN items
             ELSE [items EXCEPT
                     ![n].total = correct_last_total,
                     ![n].unit_price =
                         IF qty # 0
                         THEN RoundQuotient2(correct_last_total, qty, fp.half)
                         ELSE 0]

\* extraction_node that empties the extracted fields when the call fails
extraction_node_clears_on_error(st, out, fp) ==
    IF st.status = FAILED THEN st
    ELSE IF out.kind = "raise" \/ out.value.kind # "dict"
    THEN [st EXCEPT !.vendor_name = None,
                    !.invoice_number = None,
                    !.invoice_date = None,
                    !.line_items = <<>>,
                    !.subtotal = None,
                    !.tax_amount = None,
                    !.total_amount = None,
                    !.confidence_score = Num(0),
                    !.status = FAILED,
                    !.validation_errors =
                        <<Err("Extraction failed", <<>>)>>]
    ELSE LET result == out.value.d
             line_items ==
                 _fix_line_items_with_subtotal(
                     _normalize_line_items(Get(result.line_items), fp),
                     Get(result.subtotal), fp)
         IN  [st EXCEPT !.vendor_name = Get(result.vendor_name),
                        !.invoice_number = Get(result.invoice_number),
                        !.invoice_date = Get(result.invoice_date),
                        !.line_items = line_items,
                        !.subtotal = Get(result.subtotal),
                        !.tax_amount = Get(result.tax_amount),
                        !.total_amount = Get(result.total_amount),
                        !.confidence_score =
                            GetOr(result.confidence_score, Num(0)),
                        !.status = EXTRACTED]

\* out is what chain.invoke did: raised, or the JSON value the parser returned
extraction_node(st, out, fp) ==
    IF st.status = FAILED THEN st
    ELSE IF out.kind = "raise"
    THEN [st EXCEPT !.status = FAILED,
                    !.validation_errors =
                        <<Err("Extraction failed: " \o out.msg, <<>>)>>]
    ELSE IF out.value.kind # "dict"
    THEN [st EXCEPT !.status = FAILED,
                    !.validation_errors =
                        <<Err("Extraction failed: object has no attribute 'get'",
                              <<>>)>>]
    ELSE LET result == out.value.d
             line_items ==
                 _fix_line_items_with_subtotal(
                     _normalize_line_items(Get(result.line_items), fp),
                     Get(result.subtotal), fp)
         IN  [st EXCEPT !.vendor_name = Get(result.vendor_name),
                        !.invoice_number = Get(result.invoice_number),
                        !.invoice_date = Get(result.invoice_date),
                        !.line_items = line_items,
                        !.subtotal = Get(result.subtotal),
                        !.tax_amount = Get(result.tax_amount),
                        !.total_amount = Get(result.total_amount),
                        !.confidence_score =
                            GetOr(result.confidence_score, Num(0)),
                        !.status = EXTRACTED]

---------------------------------------------------------------------------
(* validation_node, should_retry                                           *)

MaxRetries == 2
ConfidenceFloor == 60

AmountFields == <<"subtotal", "tax_amount", "total_amount">>

\* validation_node raises TypeError: an amount that is not None is compared
\* with 0 (Rule 3) and the confidence score with 0.6 (Rule 4)
ValidationRaises(st) ==
    \/ \E i \in 1..3 : st[AmountFields[i]].kind \notin {"null", "num"}
    \/ st.confidence_score.kind # "num"

\* abs(a - b) > 0.01 on amounts rounded to cents; over01 is the float
\* outcome when they differ by exactly one cent
Over01(a, b, over01) ==
    Abs(a - b) > Cents(1) \/ (Abs(a - b) = Cents(1) /\ over01)

Rule1(st) ==
    (IF ~Truthy(st.vendor_name) THEN <<Err("Missing vendor name", <<>>)>> ELSE <<>>)
    \o (IF ~Truthy(st.invoice_number)
        THEN <<Err("Missing invoice number", <<>>)>> ELSE <<>>)
    \o (IF ~Truthy(st.total_amount)
        THEN <<Err("Missing total amount", <<>>)>> ELSE <<>>)
    \o (IF ~Truthy(st.invoice_date)
        THEN <<Err("Missing invoice date", <<>>)>> ELSE <<>>)

Rule2(st, fp) ==
    IF /\ st.subtotal # None
       /\ st.tax_amount # None
       /\ st.total_amount # None
    THEN LET expected_total ==
                 Round2(st.subtotal.num + st.tax_amount.num, fp.half)
             actual_total == Round2(st.total_amount.num, fp.half)
         IN  IF Over01(expected_total, actual_total, fp.totals)
             THEN <<Err("Total mismatch",
                        <<st.subtotal.num, st.tax_amount.num,
                          expected_total, actual_total>>)>>
             ELSE <<>>
    ELSE <<>>

RECURSIVE Rule3From(_, _)
Rule3From(st, i) ==
    IF i > 3 THEN <<>>
    ELSE LET value == st[AmountFields[i]]
         IN  (IF value # None /\ value.num < 0
              THEN <<Err("Negative amount detected in " \o AmountFields[i],
                         <<value.num>>)>>
              ELSE <<>>) \o Rule3From(st, i + 1)

Rule3(st) == Rule3From(st, 1)

Rule4(st) ==
    IF st.confidence_score.num < ConfidenceFloor
    THEN <<Err("Low confidence score", <<st.confidence_score.num>>)>>
    ELSE <<>>

Rule5(st, fp) ==
    IF st.line_items # <<>> /\ Truthy(st.subtotal)
    THEN LET line_items_total == Round2(SumTotals(st.line_items), fp.half)
             subtotal == Round2(st.subtotal.num, fp.half)
         IN  IF Over01(line_items_total, subtotal, fp.lines)
             THEN <<Err("Line items total does not match subtotal",
                        <<line_items_total, subtotal>>)>>
             ELSE <<>>
    ELSE <<>>

\* the errors list validation_node builds (when it does not raise)
ValidationErrors(st, fp) ==
    Rule1(st) \o Rule2(st, fp) \o Rule3(st) \o Rule4(st) \o Rule5(st, fp)

\* validation_node that marks a record with defects as Failed
validation_node_marks_failed(st, fp) ==
    IF st.status = FAILED THEN st
    ELSE LET errors == ValidationErrors(st, fp)
         IN  IF errors # <<>>
             THEN [st EXCEPT !.validation_errors = errors,
                             !.status = FAILED]
             ELSE [st EXCEPT !.validation_errors = <<>>,
                             !.status = VALIDATED]

\* validation_node without the confidence rule
validation_node_ignores_confidence(st, fp) ==
    IF st.status = FAILED THEN st
    ELSE LET errors == Rule1(st) \o Rule2(st, fp) \o Rule3(st) \o Rule5(st, fp)
         IN  IF errors # <<>>
             THEN [st EXCEPT !.validation_errors = errors]
             ELSE [st EXCEPT !.validation_errors = <<>>,
                             !.status = VALIDATED]

\* validation_node's result when it returns
validation_node(st, fp) ==
    IF st.status = FAILED THEN st
    ELSE LET errors == ValidationErrors(st, fp)
         IN  IF errors # <<>>
             THEN [st EXCEPT !.validation_errors = errors]
             ELSE [st EXCEPT !.validation_errors = <<>>,
                             !.status = VALIDATED]

\* should_retry with the exhausted-retries branch sent on to anomaly detection
should_retry_exhausted_proceeds(st) ==
    IF st.validation_errors = <<>> THEN "proceed"
    ELSE IF st.retry_count < MaxRetries THEN "retry"
    ELSE "proceed"

\* should_retry with the retry test off by one (<= instead of <)
should_retry_off_by_one(st) ==
    IF st.validation_errors = <<>> THEN "proceed"
    ELSE IF st.retry_count <= MaxRetries THEN "retry"
    ELSE "failed"

should_retry(st) ==
    LET has_errors == st.validation_errors # <<>>
        retry_count == st.retry_count
    IN  IF ~has_errors THEN "proceed"
        ELSE IF retry_count < MaxRetries THEN "retry"
        ELSE "failed"

\* the mapping of add_conditional_edges
EdgeOf(decision) ==
    CASE decision = "proceed" -> "anomaly"
      [] decision = "retry" -> "retry"
      [] decision = "failed" -> "failed"

---------------------------------------------------------------------------
(* retry_node, failed_node                                                 *)

\* retry_node that clears the errors without counting the attempt
retry_node_no_increment(st) == [st EXCEPT !.validation_errors = <<>>]

\* retry_node that puts the record back to Pending for the next attempt
retry_node_resets_status(st) ==
    [st EXCEPT !.retry_count = st.retry_count + 1,
               !.validation_errors = <<>>,
               !.status = PENDING]

\* retry_node that starts the next attempt from the defaults of a record
retry_node_fresh_record(st) ==
    [st EXCEPT !.retry_count = st.retry_count + 1,
               !.validation_errors = <<>>,
               !.is_tax_exempt = FALSE,
               !.tax_exempt_reason = None]

\* retry_node that also drops the text, so that the next attempt reads none
retry_node_drops_text(st) ==
    [st EXCEPT !.retry_count = st.retry_count + 1,
               !.validation_errors = <<>>,
               !.raw_text = ""]

retry_node(st) ==
    [st EXCEPT !.retry_count = st.retry_count + 1,
               !.validation_errors = <<>>]

\* failed_node that replaces the defects by a summary of its own
failed_node_replaces_errors(st) ==
    [st EXCEPT !.status = FAILED,
               !.validation_errors = <<Err("Max retries exceeded", <<>>)>>]

failed_node(st) == [st EXCEPT !.status = FAILED]

---------------------------------------------------------------------------
(* anomaly_node and the whitelist filter                                   *)

VendorKeywords ==
    <<"vendor", "vendor name", "company name", "generic name", "suspicious name">>

\* _is_vendor_whitelisted with the partial match in one direction only
_is_vendor_whitelisted_one_way(vendor_name, whitelisted_vendors) ==
    IF vendor_name = "" \/ whitelisted_vendors = <<>> THEN FALSE
    ELSE LET vendor_lower == Strip(Lower(vendor_name))
         IN  \E i \in 1..Len(whitelisted_vendors) :
                 LET whitelisted == whitelisted_vendors[i]
                 IN  \/ vendor_lower = whitelisted
                     \/ Contains(whitelisted, vendor_lower)

\* vendor_name is a str here
_is_vendor_whitelisted(vendor_name, whitelisted_vendors) ==
    IF vendor_name = "" \/ whitelisted_vendors = <<>> THEN FALSE
    ELSE LET vendor_lower == Strip(Lower(vendor_name))
         IN  \E i \in 1..Len(whitelisted_vendors) :
                 LET whitelisted == whitelisted_vendors[i]
                 IN  \/ vendor_lower = whitelisted
                     \/ Contains(whitelisted, vendor_lower)
                     \/ Contains(vendor_lower, whitelisted)

\* the comprehension's test without anomaly.lower()
KeepsAnomaly_case_sensitive(anomaly) ==
    ~\E k \in 1..Len(VendorKeywords) : Contains(VendorKeywords[k], anomaly)

\* the anomaly string is kept by the comprehension of _filter_vendor_anomalies
KeepsAnomaly(anomaly) ==
    ~\E k \in 1..Len(VendorKeywords) : Contains(VendorKeywords[k], Lower(anomaly))

\* _filter_vendor_anomalies raises: vendor_name.lower() on a non-str, the
\* iteration of None or of a number, anomaly.lower() on a non-str
FilterRaises(anomalies, vendor_name, whitelisted_vendors) ==
    /\ Truthy(vendor_name)
    /\ whitelisted_vendors # <<>>
    /\ \/ vendor_name.kind # "str"
       \/ /\ _is_vendor_whitelisted(vendor_name.str, whitelisted_vendors)
          /\ \/ anomalies.kind \in {"null", "num"}
             \/ /\ anomalies.kind = "list"
                /\ \E i \in 1..Len(anomalies.items) :
                       anomalies.items[i].kind # "str"

\* the value _filter_vendor_anomalies returns (when it does not raise)
_filter_vendor_anomalies(anomalies, vendor_name, whitelisted_vendors) ==
    IF ~Truthy(vendor_name) THEN anomalies
    ELSE IF whitelisted_vendors = <<>> THEN anomalies
    ELSE IF ~_is_vendor_whitelisted(vendor_name.str, whitelisted_vendors)
    THEN anomalies
    ELSE List(SelectSeq(anomalies.items, LAMBDA a : KeepsAnomaly(a.str)))

\* the try block of anomaly_node raises
AnomalyRaises(st, out) ==
    \/ out.kind = "raise"
    \/ out.value.kind # "dict"
    \/ FilterRaises(GetOr(out.value.d.anomalies, List(<<>>)),
                    st.vendor_name, st.whitelisted_vendors)

\* anomaly_node whose except branch marks the record failed
anomaly_node_except_fails(st, out) ==
    IF st.status # VALIDATED THEN st
    ELSE IF AnomalyRaises(st, out)
    THEN [st EXCEPT !.status = FAILED,
                    !.validation_errors =
                        <<Err("Anomaly detection failed", <<>>)>>]
    ELSE LET anomalies ==
                 _filter_vendor_anomalies(
                     GetOr(out.value.d.anomalies, List(<<>>)),
                     st.vendor_name, st.whitelisted_vendors)
         IN  [st EXCEPT !.anomaly_flags = anomalies,
                        !.status = IF Truthy(anomalies)
                                   THEN ANOMALY_FLAGGED
                                   ELSE COMPLETED]

\* anomaly_node that filters with the whitelist repository as it is now
anomaly_node_reads_store(st, out) ==
    IF st.status = FAILED THEN st
    ELSE IF st.status # VALIDATED THEN st
    ELSE IF AnomalyRaises(st, out)
    THEN [st EXCEPT !.anomaly_flags = List(<<>>),
                    !.status = COMPLETED]
    ELSE LET anomalies ==
                 _filter_vendor_anomalies(
                     GetOr(out.value.d.anomalies, List(<<>>)),
                     st.vendor_name,
                     [i \in 1..Len(whitelist_store) |->
                         Strip(Lower(whitelist_store[i]))])
         IN  [st EXCEPT !.anomaly_flags = anomalies,
                        !.status = IF Truthy(anomalies)
                                   THEN ANOMALY_FLAGGED
                                   ELSE COMPLETED]

\* anomaly_node that filters with a whitelist kept in a module global, which
\* the other process_invoice call in progress has overwritten
anomaly_node_global_whitelist(st, out) ==
    IF st.status = FAILED THEN st
    ELSE IF st.status # VALIDATED THEN st
    ELSE IF AnomalyRaises(st, out)
    THEN [st EXCEPT !.anomaly_flags = List(<<>>),
                    !.status = COMPLETED]
    ELSE LET anomalies ==
                 _filter_vendor_anomalies(
                     GetOr(out.value.d.anomalies, List(<<>>)),
                     st.vendor_name,
                     IF parked.pc = "none"
                     THEN st.whitelisted_vendors
                     ELSE parked.state.whitelisted_vendors)
         IN  [st EXCEPT !.anomaly_flags = anomalies,
                        !.status = IF Truthy(anomalies)
                                   THEN ANOMALY_FLAGGED
                                   ELSE COMPLETED]

\* anomaly_node that decides the status before it filters the anomalies
anomaly_node_status_before_filter(st, out) ==
    IF st.status = FAILED THEN st
    ELSE IF st.status # VALIDATED THEN st
    ELSE IF AnomalyRaises(st, out)
    THEN [st EXCEPT !.anomaly_flags = List(<<>>),
                    !.status = COMPLETED]
    ELSE LET reported == GetOr(out.value.d.anomalies, List(<<>>))
             anomalies ==
                 _filter_vendor_anomalies(
                     reported, st.vendor_name, st.whitelisted_vendors)
         IN  [st EXCEPT !.anomaly_flags = anomalies,
                        !.status = IF Truthy(reported)
                                   THEN ANOMALY_FLAGGED
                                   ELSE COMPLETED]

\* anomaly_node without the second early return (status != VALIDATED)
anomaly_node_only_skips_failed(st, out) ==
    IF st.status = FAILED THEN st
    ELSE IF AnomalyRaises(st, out)
    THEN [st EXCEPT !.anomaly_flags = List(<<>>),
                    !.status = COMPLETED]
    ELSE LET anomalies ==
                 _filter_vendor_anomalies(
                     GetOr(out.value.d.anomalies, List(<<>>)),
                     st.vendor_name, st.whitelisted_vendors)
         IN  [st EXCEPT !.anomaly_flags = anomalies,
                        !.status = IF Truthy(anomalies)
                                   THEN ANOMALY_FLAGGED
                                   ELSE COMPLETED]

\* out is what chain.invoke did: raised, or the JSON value the parser returned
anomaly_node(st, out) ==
    IF st.status = FAILED THEN st
    ELSE IF st.status # VALIDATED THEN st
    ELSE IF AnomalyRaises(st, out)
    THEN [st EXCEPT !.anomaly_flags = List(<<>>),
                    !.status = COMPLETED]
    ELSE LET anomalies ==
                 _filter_vendor_anomalies(
                     GetOr(out.value.d.anomalies, List(<<>>)),
                     st.vendor_name, st.whitelisted_vendors)
         IN  [st EXCEPT !.anomaly_flags = anomalies,
                        !.status = IF Truthy(anomalies)
                                   THEN ANOMALY_FLAGGED
                                   ELSE COMPLETED]

---------------------------------------------------------------------------
(* process_invoice: the initial state                                      *)

\* [v.lower().strip() for v in (whitelisted_vendors or [])]
Snapshot(whitelisted_vendors) ==
    IF ~Truthy(whitelisted_vendors) THEN <<>>
    ELSE [i \in 1..Len(whitelisted_vendors.items) |->
             Strip(Lower(whitelisted_vendors.items[i]))]

initial_state(a) ==
    [file_path |-> a.file_path,
     raw_text |-> "",
     vendor_name |-> None,
     invoice_number |-> None,
     invoice_date |-> None,
     line_items |-> <<>>,
     subtotal |-> None,
     tax_amount |-> None,
     total_amount |-> None,
     confidence_score |-> Num(0),
     retry_count |-> 0,
     validation_errors |-> <<>>,
     anomaly_flags |-> List(<<>>),
     status |-> PENDING,
     is_tax_exempt |-> a.is_tax_exempt,
     tax_exempt_reason |-> a.tax_exempt_reason,
     whitelisted_vendors |-> Snapshot(a.whitelisted_vendors)]

---------------------------------------------------------------------------
(* The inputs: what the caller passes and what the services answer         *)

MaxPart == 1
MaxAmount == 2
MaxItems == 2
MaxAnomalies == 2

CallerArgs ==
    {[file_path |-> "inv.pdf", whitelisted_vendors |-> None,
      is_tax_exempt |-> FALSE, tax_exempt_reason |-> None],
     [file_path |-> "inv.pdf", whitelisted_vendors |-> List(<<" ACME ">>),
      is_tax_exempt |-> FALSE, tax_exempt_reason |-> None],
     [file_path |-> "scan.png", whitelisted_vendors |-> List(<<" ACME ">>),
      is_tax_exempt |-> TRUE, tax_exempt_reason |-> Str("C2C services")],
     [file_path |-> "scan.png", whitelisted_vendors |-> List(<<>>),
      is_tax_exempt |-> TRUE, tax_exempt_reason |-> None]}

Settings ==
    [OCR_USE_DOCLING : BOOLEAN,
     docling_injected : BOOLEAN,
     OCR_USE_VISION_LLM : BOOLEAN,
     OLLAMA_VISION_MODEL : {"llava:7b"}]
    \cup {[OCR_USE_DOCLING |-> TRUE, docling_injected |-> TRUE,
           OCR_USE_VISION_LLM |-> TRUE, OLLAMA_VISION_MODEL |-> ""]}

BackendOutcomes ==
    {Text(""), Text(" \n"), Text(" INV-1 Acme Corp total 0.02\n"),
     Raise("cannot open file")}

Envs ==
    [docling : BackendOutcomes,
     text_layer : BackendOutcomes,
     page_ocr : BackendOutcomes,
     image_ocr : BackendOutcomes]

\* the fields of a result that passes every rule
BaseResult ==
    [vendor_name |-> Str("Acme Corp"),
     invoice_number |-> Str("INV-1"),
     invoice_date |-> Str("2024-01-15"),
     line_items |-> List(<<>>),
     subtotal |-> Money(1),
     tax_amount |-> Money(1),
     total_amount |-> Money(2),
     confidence_score |-> Num(90)]

Parts == {None} \cup {Money(n) : n \in 0..MaxPart}
Amounts == {None} \cup {Money(n) : n \in -1..MaxAmount}

RawItem(desc, qty, unit, total) ==
    Dict([description |-> desc, item |-> Missing,
          quantity |-> qty, qty |-> Missing,
          unit_price |-> unit, rate |-> Missing, price |-> Missing,
          total |-> total, amount |-> Missing])

RawItems ==
    {RawItem(Str("Widget"), Num(1), Money(1), Money(1)),
     RawItem(Str(" Gadget "), Num(2), Money(1), Money(0)),
     RawItem(Str("Hosting"), Num(2), None, Money(1)),
     Dict([description |-> Missing, item |-> Str("Support"),
           quantity |-> Missing, qty |-> Num(1),
           unit_price |-> Missing, rate |-> Missing, price |-> Money(3),
           total |-> Missing, amount |-> Money(3)])}

RECURSIVE SeqsUpTo(_, _)
\* the sequences over S of length at most n
SeqsUpTo(S, n) ==
    IF n = 0 THEN {<<>>}
    ELSE LET shorter == SeqsUpTo(S, n - 1)
         IN  shorter \cup {Append(q, x) : q \in shorter, x \in S}

ResultDicts ==
    {[BaseResult EXCEPT !.vendor_name = v, !.invoice_number = n,
                        !.invoice_date = d] :
        v \in {None, Str(""), Str("Acme Corp"), Str("Globex")},
        n \in {Missing, Str("INV-1")},
        d \in {None, Str("2024-01-15")}}
    \cup {[BaseResult EXCEPT !.subtotal = s, !.tax_amount = t,
                             !.total_amount = a] :
        s \in Parts, t \in Parts, a \in Amounts}
    \cup {[BaseResult EXCEPT !.confidence_score = c] :
        c \in {Missing, None, Str("high"), Num(0), Num(59), Num(60), Num(100)}}
    \cup {[BaseResult EXCEPT !.subtotal = [kind |-> "numstr", num |-> Cents(1)]]}
    \cup {[BaseResult EXCEPT !.line_items = li, !.subtotal = Money(2),
                             !.total_amount = Money(3)] :
        li \in {None, Str("n/a")}
               \cup {List(q) : q \in SeqsUpTo(RawItems, MaxItems)}}
    \* line items against a subtotal of 0, and a line item with negative
    \* values among items that add up to the subtotal
    \cup {[BaseResult EXCEPT
              !.line_items =
                  List(<<RawItem(Str("Widget"), Num(1), Money(1), Money(1)),
                         RawItem(Str("Widget"), Num(1), Money(1), Money(1))>>),
              !.subtotal = Money(0), !.total_amount = Money(1)],
          [BaseResult EXCEPT
              !.line_items =
                  List(<<RawItem(Str("Support"), Num(1), Money(3), Money(3)),
                         RawItem(Str("Refund"), Num(1), Money(-1), Money(-1))>>),
              !.subtotal = Money(2), !.total_amount = Money(3)]}

ExtractionOutcomes ==
    {Raise("connection refused"), Json(List(<<>>))}
    \cup {Json(Dict(d)) : d \in ResultDicts}

AnomalyTexts ==
    {Str("Vendor name looks suspicious"),
     Str("Duplicate invoice number"),
     Str("Duplicate invoice number for this vendor")}

AnomalyOutcomes ==
    {Raise("connection refused"), Json(List(<<>>))}
    \cup {Json(Dict([anomalies |-> a])) :
            a \in {Missing, None}
                  \cup {List(q) : q \in SeqsUpTo(AnomalyTexts, MaxAnomalies)}}

NoFp == [half |-> FALSE, lt02 |-> FALSE]

\* the float outcomes extraction can depend on: none without line items
ExtractFp(out) ==
    IF /\ out.kind = "json"
       /\ out.value.kind = "dict"
       /\ out.value.d.line_items.kind = "list"
       /\ out.value.d.line_items.items # <<>>
    THEN [half : BOOLEAN, lt02 : BOOLEAN]
    ELSE {NoFp}

ValidateFp == [totals : BOOLEAN, lines : BOOLEAN, half : BOOLEAN]

---------------------------------------------------------------------------
(* The graph                                                               *)

\* the first extraction returned fully consistent fields: required fields
\* present, subtotal + tax = total, confidence >= 0.6, nothing negative,
\* and line items (if any) that add up to the subtotal
FullyConsistent(st) ==
    /\ st.vendor_name.kind = "str" /\ st.vendor_name.str # ""
    /\ st.invoice_number.kind = "str" /\ st.invoice_number.str # ""
    /\ st.invoice_date.kind = "str" /\ st.invoice_date.str # ""
    /\ st.subtotal.kind = "num" /\ st.subtotal.num >= 0
    /\ st.tax_amount.kind = "num" /\ st.tax_amount.num >= 0
    /\ st.total_amount.kind = "num" /\ st.total_amount.num >= 0
    /\ st.subtotal.num + st.tax_amount.num = st.total_amount.num
    /\ st.confidence_score.kind = "num"
    /\ st.confidence_score.num >= ConfidenceFloor
    /\ \A i \in 1..Len(st.line_items) :
           /\ st.line_items[i].quantity >= 0
           /\ st.line_items[i].unit_price >= 0
           /\ st.line_items[i].total >= 0
    /\ st.line_items # <<>> => SumTotals(st.line_items) = st.subtotal.num

\* chain.invoke of the anomaly node has not been called
NotCalled == [kind |-> "not_called"]

\* no second call of process_invoice is in progress
NoRun == [pc |-> "none"]

\* no helper is applied on its own
NoProbe == [kind |-> "none"]

\* Invoice(filename, file_path, size_mb, status=PENDING): the other columns
\* at their defaults
NewInvoice ==
    [status |-> PENDING,
     vendor_name |-> None,
     invoice_number |-> None,
     invoice_date |-> None,
     subtotal |-> None,
     tax_amount |-> None,
     total_amount |-> None,
     confidence_score |-> Num(0),
     retry_count |-> 0,
     line_items |-> None,
     validation_errors |-> None,
     anomaly_flags |-> None]

\* upload_and_process_invoice before it calls process_invoice: `invoice` is
\* the object the handler holds, `row` what the repository has committed
\* (the create); no update was committed and no response was sent
NewUpload ==
    [invoice |-> NewInvoice,
     row |-> NewInvoice,
     updates |-> 0,
     response |-> 0,
     detail |-> ""]

\* whitelist_repository.get_all_active(): the rows the caller built the
\* whitelisted_vendors argument from (none when it passes no whitelist)
ActiveVendors(a) ==
    IF a.whitelisted_vendors.kind = "list" THEN a.whitelisted_vendors.items
    ELSE <<>>

Init ==
    /\ args \in CallerArgs
    /\ state = initial_state(args)
    /\ pc = "ocr"
    /\ log = <<>>
    /\ llm_inputs = <<>>
    /\ emitted = <<>>
    /\ first_ok = "unset"
    /\ anomaly_out = NotCalled
    /\ whitelist_store = ActiveVendors(args)
    /\ parked = NoRun
    /\ upload = NewUpload
    /\ probe = NoProbe

\* the ocr node, with the configuration among settings and the backends
\* answering as one of envs
OcrWith(settings, envs) ==
    /\ pc = "ocr"
    /\ \E cfg \in settings, env \in envs :
        \E r \in {OcrTry(state, cfg, env).out}, st \in {ocr_node(state, cfg, env)} :
            /\ state' = st
            /\ log' = Append(log, IF r.kind = "raise" THEN "ocr:raise"
                                  ELSE IF st.status = FAILED THEN "ocr:empty"
                                  ELSE "ocr:ok")
            /\ emitted' = IF st.status = FAILED THEN st.validation_errors
                          ELSE emitted
    /\ pc' = "extract"
    /\ UNCHANGED <<upload, probe, whitelist_store, parked, anomaly_out, args, llm_inputs,
                   first_ok>>

Ocr == OcrWith(Settings, Envs)

ExtractSkip ==
    /\ pc = "extract"
    /\ state.status = FAILED
    /\ state' = extraction_node(state, Raise("not called"), NoFp)
    /\ log' = Append(log, "extract:skip")
    /\ pc' = "validate"
    /\ UNCHANGED <<upload, probe, whitelist_store, parked, anomaly_out, args, llm_inputs,
                   emitted, first_ok>>

\* the extract node, with chain.invoke answering as one of outcomes
ExtractWith(outcomes) ==
    /\ pc = "extract"
    /\ state.status # FAILED
    /\ \E out \in outcomes :
        \E fp \in ExtractFp(out) :
            \E st \in {extraction_node(state, out, fp)} :
                /\ state' = st
                /\ log' = Append(log, IF st.status = FAILED THEN "extract:raise"
                                      ELSE "extract:ok")
                /\ emitted' = IF st.status = FAILED THEN st.validation_errors
                              ELSE emitted
                /\ first_ok' = IF first_ok # "unset" THEN first_ok
                               ELSE IF st.status # FAILED /\ FullyConsistent(st)
                               THEN "yes"
                               ELSE "no"
    /\ llm_inputs' = Append(llm_inputs, state.raw_text)
    /\ pc' = "validate"
    /\ UNCHANGED <<upload, probe, whitelist_store, parked, anomaly_out, args>>

Extract == ExtractWith(ExtractionOutcomes)

ValidateSkip ==
    /\ pc = "validate"
    /\ state.status = FAILED
    /\ state' = validation_node(state, [totals |-> FALSE, lines |-> FALSE,
                                        half |-> FALSE])
    /\ log' = Append(log, "validate:skip")
    /\ pc' = EdgeOf(should_retry(state'))
    /\ UNCHANGED <<upload, probe, whitelist_store, parked, anomaly_out, args, llm_inputs,
                   emitted, first_ok>>

\* validation_node raises TypeError; no node catches it, so graph.invoke and
\* process_invoice raise
ValidateRaise ==
    /\ pc = "validate"
    /\ state.status # FAILED
    /\ ValidationRaises(state)
    /\ log' = Append(log, "validate:raise")
    /\ pc' = "raised"
    /\ UNCHANGED <<upload, probe, whitelist_store, parked, anomaly_out, state, args,
                   llm_inputs, emitted, first_ok>>

Validate ==
    /\ pc = "validate"
    /\ state.status # FAILED
    /\ ~ValidationRaises(state)
    /\ \E fp \in ValidateFp :
        \E st \in {validation_node(state, fp)} :
            /\ state' = st
            /\ log' = Append(log, IF st.validation_errors # <<>>
                                  THEN "validate:errors"
                                  ELSE "validate:ok")
            /\ emitted' = IF st.validation_errors # <<>>
                          THEN st.validation_errors
                          ELSE emitted
            /\ pc' = EdgeOf(should_retry(st))
    /\ UNCHANGED <<upload, probe, whitelist_store, parked, anomaly_out, args, llm_inputs,
                   first_ok>>

Retry ==
    /\ pc = "retry"
    /\ state' = retry_node(state)
    /\ log' = Append(log, "retry")
    \* the defects of a validation pass that is retried are superseded; the
    \* error of a stage that set FAILED stays the run's failure
    /\ emitted' = IF state.status = FAILED THEN emitted ELSE <<>>
    /\ pc' = "extract"
    /\ UNCHANGED <<upload, probe, whitelist_store, parked, anomaly_out, args, llm_inputs,
                   first_ok>>

Failed ==
    /\ pc = "failed"
    /\ state' = failed_node(state)
    /\ log' = Append(log, "failed")
    /\ pc' = "END"
    /\ UNCHANGED <<upload, probe, whitelist_store, parked, anomaly_out, args, llm_inputs,
                   emitted, first_ok>>

AnomalySkip ==
    /\ pc = "anomaly"
    /\ state.status # VALIDATED
    /\ state' = anomaly_node(state, Raise("not called"))
    /\ log' = Append(log, "anomaly:skip")
    /\ pc' = "END"
    /\ UNCHANGED <<upload, probe, whitelist_store, parked, anomaly_out, args, llm_inputs,
                   emitted, first_ok>>

\* the anomaly node, with chain.invoke answering as one of outcomes
AnomalyWith(outcomes) ==
    /\ pc = "anomaly"
    /\ state.status = VALIDATED
    /\ \E out \in outcomes :
        /\ state' = anomaly_node(state, out)
        /\ log' = Append(log, IF AnomalyRaises(state, out) THEN "anomaly:raise"
                              ELSE "anomaly:ok")
        /\ anomaly_out' = out
    /\ pc' = "END"
    /\ UNCHANGED <<upload, probe, whitelist_store, parked, args, llm_inputs, emitted,
                   first_ok>>

Anomaly == AnomalyWith(AnomalyOutcomes)

Next ==
    \/ Ocr
    \/ ExtractSkip
    \/ Extract
    \/ ValidateSkip
    \/ ValidateRaise
    \/ Validate
    \/ Retry
    \/ Failed
    \/ AnomalySkip
    \/ Anomaly

Spec == Init /\ [][Next]_vars

---------------------------------------------------------------------------
(* The anomaly stage on its own: anomaly_node applied to any record, as a  *)
(* caller of the node (or a graph wired differently) may hand it over      *)

Statuses == {PENDING, EXTRACTED, VALIDATED, FAILED, ANOMALY_FLAGGED, COMPLETED}

StageVendors ==
    {None, Str(""), Str("  "), Str("Acme Corp"), Str(" ACME"), Str("Initech")}

StageWhitelists ==
    {None, List(<<>>), List(<<" ACME ">>), List(<<"Acme Corp Ltd">>),
     List(<<"Globex", "acme">>), List(<<"  ">>)}

StageArgs ==
    {[file_path |-> "inv.pdf", whitelisted_vendors |-> w,
      is_tax_exempt |-> FALSE, tax_exempt_reason |-> None] :
        w \in StageWhitelists}

AnomalyStageInit ==
    /\ args \in StageArgs
    /\ \E v \in StageVendors, s \in Statuses :
           state = [initial_state(args) EXCEPT !.vendor_name = v, !.status = s]
    /\ pc = "anomaly"
    /\ log = <<>>
    /\ llm_inputs = <<>>
    /\ emitted = <<>>
    /\ first_ok = "unset"
    /\ anomaly_out = NotCalled
    /\ whitelist_store = ActiveVendors(args)
    /\ parked = NoRun
    /\ upload = NewUpload
    /\ probe = NoProbe

AnomalyStageNext ==
    \/ AnomalySkip
    \/ Anomaly

AnomalyStageSpec == AnomalyStageInit /\ [][AnomalyStageNext]_vars

---------------------------------------------------------------------------
(* Concurrency: upload_and_process_invoice runs process_invoice in a       *)
(* worker thread (asyncio.to_thread) after loading the whitelist, so a     *)
(* second upload and the whitelist endpoints run while a pipeline is in    *)
(* progress.  The thread that is not running is `parked`; a node is one    *)
(* step.                                                                   *)

\* the call of process_invoice whose thread is running
Run ==
    [state |-> state, pc |-> pc, args |-> args, log |-> log,
     llm_inputs |-> llm_inputs, emitted |-> emitted, first_ok |-> first_ok,
     anomaly_out |-> anomaly_out]

\* the vendor names the whitelist endpoints add
StoreNames == {" ACME "}

\* the answers of the backends and of the LLM in the concurrent runs: text
\* or none; a valid result, one without vendor, one without confidence, or
\* an exception; two anomalies, one of them about the vendor name
ConcurrentSettings ==
    {[OCR_USE_DOCLING |-> FALSE, docling_injected |-> FALSE,
      OCR_USE_VISION_LLM |-> FALSE, OLLAMA_VISION_MODEL |-> "llava:7b"]}

ConcurrentEnvs ==
    [docling : {Text("")},
     text_layer : {Text(""), Text(" INV-1 Acme Corp total 0.02\n")},
     page_ocr : {Text("")},
     image_ocr : {Text(""), Text(" INV-1 Acme Corp total 0.02\n")}]

ConcurrentExtractionOutcomes ==
    {Raise("connection refused"),
     Json(Dict(BaseResult)),
     Json(Dict([BaseResult EXCEPT !.vendor_name = None])),
     Json(Dict([BaseResult EXCEPT !.confidence_score = None]))}

ConcurrentAnomalyOutcomes ==
    {Json(Dict([anomalies |->
         List(<<Str("Vendor name looks suspicious"),
                Str("Duplicate invoice number")>>)]))}

ConcurrentInit ==
    /\ Init
    /\ args.file_path = "inv.pdf"
    /\ args.whitelisted_vendors.kind = "list"

\* upload_and_process_invoice for a second document: the whitelist is
\* loaded from the repository as it is now and process_invoice is started
UploadSecondInvoice ==
    /\ parked = NoRun
    /\ \E a \in {[file_path |-> "scan.png",
                   whitelisted_vendors |->
                       List([i \in 1..Len(whitelist_store) |->
                                Lower(whitelist_store[i])]),
                   is_tax_exempt |-> FALSE,
                   tax_exempt_reason |-> None]} :
           parked' = [state |-> initial_state(a), pc |-> "ocr", args |-> a,
                      log |-> <<>>, llm_inputs |-> <<>>, emitted |-> <<>>,
                      first_ok |-> "unset", anomaly_out |-> NotCalled]
    /\ UNCHANGED <<upload, probe, state, pc, args, log, llm_inputs, emitted,
                   first_ok,
                   anomaly_out, whitelist_store>>

\* the scheduler runs the other thread
Switch ==
    /\ parked # NoRun
    /\ parked.pc \notin {"END", "raised"}
    /\ parked' = Run
    /\ state' = parked.state
    /\ pc' = parked.pc
    /\ args' = parked.args
    /\ log' = parked.log
    /\ llm_inputs' = parked.llm_inputs
    /\ emitted' = parked.emitted
    /\ first_ok' = parked.first_ok
    /\ anomaly_out' = parked.anomaly_out
    /\ UNCHANGED <<whitelist_store, upload, probe>>

\* WhitelistService.add_vendor: refused when the name is already there
AddVendor ==
    /\ \E name \in StoreNames :
           /\ \A i \in 1..Len(whitelist_store) :
                  Lower(Strip(whitelist_store[i])) # Lower(Strip(name))
           /\ whitelist_store' = Append(whitelist_store, name)
    /\ UNCHANGED <<upload, probe, state, pc, args, log, llm_inputs, emitted,
                   first_ok,
                   anomaly_out, parked>>

\* WhitelistRepository.deactivate: the row is no longer active
DeactivateVendor ==
    /\ \E i \in 1..Len(whitelist_store) :
           whitelist_store' =
               SubSeq(whitelist_store, 1, i - 1)
                   \o SubSeq(whitelist_store, i + 1, Len(whitelist_store))
    /\ UNCHANGED <<upload, probe, state, pc, args, log, llm_inputs, emitted,
                   first_ok,
                   anomaly_out, parked>>

ConcurrentNext ==
    \/ OcrWith(ConcurrentSettings, ConcurrentEnvs)
    \/ ExtractSkip
    \/ ExtractWith(ConcurrentExtractionOutcomes)
    \/ ValidateSkip
    \/ ValidateRaise
    \/ Validate
    \/ Retry
    \/ Failed
    \/ AnomalySkip
    \/ AnomalyWith(ConcurrentAnomalyOutcomes)
    \/ UploadSecondInvoice
    \/ Switch
    \/ AddVendor
    \/ DeactivateVendor

ConcurrentSpec == ConcurrentInit /\ [][ConcurrentNext]_vars

---------------------------------------------------------------------------
(* The line-item helpers of extraction_node on their own: each is a pure   *)
(* function, applied here to the line_items value and the subtotal of an   *)
(* answer of the LLM, or to a list of items that is already normalised.    *)
(* The float outcomes `fp` are those of the one answer, so they are fixed  *)
(* for the behaviour.                                                      *)

MaxRows == 2

\* a line item as _normalize_line_items builds it
Item(qty, unit, total) ==
    [description |-> "Widget", quantity |-> qty, unit_price |-> unit,
     total |-> total]

\* consistent items; items with a total or a unit price left at 0; a
\* quantity of 0 or below; amounts of half a cent; negative amounts
ProbeItems ==
    {Item(1, Cents(1), Cents(1)),
     Item(1, Cents(3), Cents(3)),
     Item(1, Cents(1), Cents(2)),
     Item(2, Cents(1), 0),
     Item(2, 0, Cents(1)),
     Item(2, 0, 0),
     Item(0, Cents(1), 0),
     Item(-1, Cents(1), 0),
     Item(2, 1, Cents(1)),
     Item(1, 1, 0),
     Item(1, 0, 1),
     Item(1, 1, 1),
     Item(1, -Cents(1), -Cents(1))}

\* entries of the LLM's line_items: the keys the prompt asks for, the
\* alternate keys, a quantity of 0, a unit price of 0 next to a rate,
\* numbers as strings, text where a number belongs, and an entry that is
\* no dict
ProbeEntries ==
    RawItems
    \cup {RawItem(Str("Setup"), Num(0), Money(1), Money(1)),
          Dict([description |-> Str("Licence"), item |-> Missing,
                quantity |-> [kind |-> "numstr", num |-> 2], qty |-> Missing,
                unit_price |-> Num(0), rate |-> Money(1), price |-> Missing,
                total |-> Num(0), amount |-> Money(3)]),
          Dict([description |-> None, item |-> Missing,
                quantity |-> Str("two"), qty |-> Num(2),
                unit_price |-> Str("n/a"), rate |-> Missing, price |-> Missing,
                total |-> Str("n/a"), amount |-> Money(1)]),
          Str("see attachment")}

ProbeSubtotals ==
    {None, Money(0), Money(2), Money(3), Num(Cents(2) + 1),
     [kind |-> "numstr", num |-> Cents(2)]}

\* the list the loop of _normalize_line_items builds, before the math repair
NormalizedEntries(value) ==
    IF value.kind = "list"
    THEN LET dicts == SelectSeq(value.items, LAMBDA x : x.kind = "dict")
         IN  [i \in 1..Len(dicts) |-> NormalizeItem(dicts[i].d)]
    ELSE <<>>

LineItemInit ==
    /\ args \in {a \in CallerArgs : a.file_path = "inv.pdf"
                                     /\ a.whitelisted_vendors = None}
    /\ state = initial_state(args)
    /\ pc = "helper"
    /\ log = <<>>
    /\ llm_inputs = <<>>
    /\ emitted = <<>>
    /\ first_ok = "unset"
    /\ anomaly_out = NotCalled
    /\ whitelist_store = <<>>
    /\ parked = NoRun
    /\ upload = NewUpload
    /\ \E subtotal \in ProbeSubtotals, fp \in [half : BOOLEAN, lt02 : BOOLEAN] :
           \/ \E value \in {None, Str("n/a")}
                          \cup {List(q) : q \in SeqsUpTo(ProbeEntries, MaxRows)} :
                  probe = [kind |-> "line_items", value |-> value,
                           subtotal |-> subtotal, fp |-> fp, last |-> "none",
                           out |-> <<>>, before |-> <<>>, items |-> <<>>]
           \/ \E items \in SeqsUpTo(ProbeItems, MaxRows) :
                  probe = [kind |-> "line_items", value |-> None,
                           subtotal |-> subtotal, fp |-> fp, last |-> "given",
                           out |-> <<>>, before |-> <<>>, items |-> items]

\* _normalize_line_items(result.get("line_items"))
NormalizeLineItems ==
    /\ probe.last = "none"
    /\ probe' = [probe EXCEPT
                    !.out = NormalizedEntries(probe.value),
                    !.items = _normalize_line_items(probe.value, probe.fp),
                    !.last = "normalize"]
    /\ UNCHANGED <<state, pc, args, log, llm_inputs, emitted, first_ok,
                   anomaly_out, whitelist_store, parked, upload>>

\* _fix_line_item_math(items), on given items or on its own output
FixLineItemMath ==
    /\ probe.last \in {"given", "math"}
    /\ probe' = [probe EXCEPT
                    !.before = probe.items,
                    !.items = _fix_line_item_math(probe.items, probe.fp),
                    !.last = "math"]
    /\ UNCHANGED <<state, pc, args, log, llm_inputs, emitted, first_ok,
                   anomaly_out, whitelist_store, parked, upload>>

\* _fix_line_items_with_subtotal(line_items, result.get("subtotal"))
FixLineItemsWithSubtotal ==
    /\ probe.last \in {"given", "normalize", "math"}
    /\ probe' = [probe EXCEPT
                    !.before = probe.items,
                    !.items = _fix_line_items_with_subtotal(
                                  probe.items, probe.subtotal, probe.fp),
                    !.last = "subtotal"]
    /\ UNCHANGED <<state, pc, args, log, llm_inputs, emitted, first_ok,
                   anomaly_out, whitelist_store, parked, upload>>

LineItemNext ==
    \/ NormalizeLineItems
    \/ FixLineItemMath
    \/ FixLineItemsWithSubtotal

LineItemSpec == LineItemInit /\ [][LineItemNext]_vars

---------------------------------------------------------------------------
(* upload_and_process_invoice around one run of process_invoice: the row   *)
(* exists with status PENDING when the pipeline starts; the handler ends   *)
(* either in its except branch or by storing the result.  The repository's *)
(* update is taken to succeed.                                             *)

GenericDetail ==
    "Invoice processing failed. Please try again or contact support."

\* str(e) of the TypeError that validation_node's Rule 4 raises when the
\* confidence score is no number (the amounts are numbers in these runs)
ExceptionText(st) ==
    "'<' not supported between instances of '"
        \o (IF st.confidence_score.kind = "null" THEN "NoneType" ELSE "str")
        \o "' and 'float'"

\* invoice_repository.update(invoice): commit and refresh
update(up) ==
    [up EXCEPT !.row = up.invoice, !.updates = up.updates + 1]

\* the except branch that raises the HTTPException without touching the row
pipeline_failed_leaves_row(up, msg, debug) ==
    [up EXCEPT !.response = 500,
               !.detail = IF debug THEN msg ELSE GenericDetail]

\* the except branch of upload_and_process_invoice; msg is str(e)
pipeline_failed(up, msg, debug) ==
    LET failed == [up EXCEPT
                     !.invoice.status = FAILED,
                     !.invoice.validation_errors =
                         <<"Pipeline error: " \o msg>>]
    IN  [update(failed) EXCEPT
            !.response = 500,
            !.detail = IF debug THEN msg ELSE GenericDetail]

\* status_map.get(result["status"], ProcessingStatus.FAILED)
status_map(status) ==
    IF status \in {COMPLETED, ANOMALY_FLAGGED, FAILED} THEN status ELSE FAILED

\* the success path: the result's fields are copied to the invoice, the
\* status is mapped, the row is updated and the invoice is the response
store_result(up, result) ==
    LET stored == [up EXCEPT
                     !.invoice.vendor_name = result.vendor_name,
                     !.invoice.invoice_number = result.invoice_number,
                     !.invoice.invoice_date = result.invoice_date,
                     !.invoice.subtotal = result.subtotal,
                     !.invoice.tax_amount = result.tax_amount,
                     !.invoice.total_amount = result.total_amount,
                     !.invoice.confidence_score =
                         IF result.confidence_score # None
                         THEN result.confidence_score ELSE Num(0),
                     !.invoice.retry_count = result.retry_count,
                     !.invoice.line_items = result.line_items,
                     !.invoice.validation_errors = result.validation_errors,
                     !.invoice.anomaly_flags = result.anomaly_flags,
                     !.invoice.status = status_map(result.status)]
    IN  [update(stored) EXCEPT !.response = 200]

\* the answers of the LLM in these runs: those of the concurrent runs, an
\* answer that is no object, totals that do not add up, no invoice number,
\* and a confidence score given as a word
ServiceExtractionOutcomes ==
    ConcurrentExtractionOutcomes
    \cup {Json(Str("no invoice found")),
          Json(Dict([BaseResult EXCEPT !.total_amount = Money(0)])),
          Json(Dict([BaseResult EXCEPT !.invoice_number = None])),
          Json(Dict([BaseResult EXCEPT !.confidence_score = Str("high")]))}

\* the handler passes the active vendors as a list and the tax exemption
\* of the row it has just created
ServiceInit ==
    /\ Init
    /\ args.whitelisted_vendors.kind = "list"
    /\ args.is_tax_exempt = FALSE

\* the arguments of process_invoice are read inside the try block; the
\* Invoice model declares no is_tax_exempt column, so where the mapped class
\* is the one of models/invoice.py the read raises AttributeError and the
\* pipeline is not started
ArgumentsRaise ==
    /\ pc = "ocr"
    /\ \E debug \in BOOLEAN :
           upload' = pipeline_failed(
                         upload,
                         "'Invoice' object has no attribute 'is_tax_exempt'",
                         debug)
    /\ log' = Append(log, "arguments:raise")
    /\ pc' = "responded"
    /\ UNCHANGED <<state, args, llm_inputs, emitted, first_ok,
                   anomaly_out, whitelist_store, parked, probe>>

\* process_invoice raised: `except Exception as e`
PipelineFailed ==
    /\ pc = "raised"
    /\ \E debug \in BOOLEAN :
           upload' = pipeline_failed(upload, ExceptionText(state), debug)
    /\ pc' = "responded"
    /\ UNCHANGED <<state, args, log, llm_inputs, emitted, first_ok,
                   anomaly_out, whitelist_store, parked, probe>>

\* process_invoice returned
StoreResult ==
    /\ pc = "END"
    /\ upload' = store_result(upload, state)
    /\ pc' = "responded"
    /\ UNCHANGED <<state, args, log, llm_inputs, emitted, first_ok,
                   anomaly_out, whitelist_store, parked, probe>>

ServiceNext ==
    \/ ArgumentsRaise
    \/ OcrWith(ConcurrentSettings, ConcurrentEnvs)
    \/ ExtractSkip
    \/ ExtractWith(ServiceExtractionOutcomes)
    \/ ValidateSkip
    \/ ValidateRaise
    \/ Validate
    \/ Retry
    \/ Failed
    \/ AnomalySkip
    \/ AnomalyWith(ConcurrentAnomalyOutcomes)
    \/ PipelineFailed
    \/ StoreResult

ServiceSpec == ServiceInit /\ [][ServiceNext]_vars

---------------------------------------------------------------------------
(* ocr_node on its own, on the files the upload handler stores: it checks  *)
(* the extension in lower case and keeps the name as it was uploaded, so a *)
(* stored path may end in .PDF or .JPG.  The configuration and what each   *)
(* backend would answer are fixed for the run and kept in `probe`.         *)

StoredPaths == {"inv.pdf", "scan.png", "INV.PDF", "scan.JPG"}

OcrStageInit ==
    /\ args \in [file_path : StoredPaths,
                  whitelisted_vendors : {List(<<>>)},
                  is_tax_exempt : {FALSE},
                  tax_exempt_reason : {None}]
    /\ state = initial_state(args)
    /\ pc = "ocr"
    /\ log = <<>>
    /\ llm_inputs = <<>>
    /\ emitted = <<>>
    /\ first_ok = "unset"
    /\ anomaly_out = NotCalled
    /\ whitelist_store = <<>>
    /\ parked = NoRun
    /\ upload = NewUpload
    /\ \E cfg \in Settings, env \in Envs :
           probe = [kind |-> "ocr", cfg |-> cfg, env |-> env, calls |-> <<>>]

\* the ocr node; the backends it called are recorded
OcrStage ==
    /\ pc = "ocr"
    /\ \E r \in {OcrTry(state, probe.cfg, probe.env)},
          st \in {ocr_node(state, probe.cfg, probe.env)} :
           /\ state' = st
           /\ probe' = [probe EXCEPT !.calls = r.calls]
           /\ log' = Append(log, IF r.out.kind = "raise" THEN "ocr:raise"
                                 ELSE IF st.status = FAILED THEN "ocr:empty"
                                 ELSE "ocr:ok")
           /\ emitted' = IF st.status = FAILED THEN st.validation_errors
                         ELSE emitted
    /\ pc' = "extract"
    /\ UNCHANGED <<upload, whitelist_store, parked, anomaly_out, args,
                   llm_inputs, first_ok>>

OcrStageNext == OcrStage

OcrStageSpec == OcrStageInit /\ [][OcrStageNext]_vars

---------------------------------------------------------------------------
(* Properties                                                              *)

\* how many times the outcome e was logged
Count(e) == Cardinality({i \in 1..Len(log) : log[i] = e})

\* the outcome of the node executed last
LastEvent == IF log = <<>> THEN "none" ELSE log[Len(log)]

Returned == pc = "END"

\* the longest path of the graph: ocr, three extract/validate rounds, two
\* retries between them, and failed or anomaly
MaxStageExecutions == 1 + 2 * (MaxRetries + 1) + MaxRetries + 1

\* C1: a run of process_invoice that returns, returns a record whose status
\* is Failed, AnomalyFlagged or Completed, never Pending, Extracted or
\* Validated.
C1_ReturnedStatusIsTerminal ==
    Returned => state.status \in {FAILED, ANOMALY_FLAGGED, COMPLETED}

C1_Witness ==
    /\ Returned
    /\ state.status = ANOMALY_FLAGGED
    /\ state.retry_count = 1

\* C2: when text extraction succeeds and the first field extraction returns
\* fully consistent fields, the run ends Completed or AnomalyFlagged with
\* retry_count = 0 and exactly one field-extraction call.
C2_ConsistentFirstResultCompletes ==
    (Returned /\ first_ok = "yes") =>
        /\ state.status \in {COMPLETED, ANOMALY_FLAGGED}
        /\ state.retry_count = 0
        /\ Len(llm_inputs) = 1

\* text extraction succeeded, every field extraction returned fields, and
\* every validation pass emitted defects
EveryAttemptInvalid ==
    /\ Count("ocr:ok") = 1
    /\ Count("extract:raise") = 0
    /\ Count("validate:ok") = 0
    /\ Count("validate:raise") = 0

\* C3: when every field-extraction attempt succeeds but fails validation, the
\* run ends after exactly two retries with retry_count = 2, status Failed and
\* the validation_errors of the third (last) validation pass.
C3_PersistentDefectsFailAfterTwoRetries ==
    (Returned /\ EveryAttemptInvalid) =>
        /\ Count("retry") = MaxRetries
        /\ state.retry_count = MaxRetries
        /\ Count("validate:errors") = MaxRetries + 1
        /\ Len(llm_inputs) = MaxRetries + 1
        /\ state.status = FAILED
        /\ state.validation_errors # <<>>
        /\ state.validation_errors = emitted

C3_Witness ==
    /\ Returned
    /\ EveryAttemptInvalid
    /\ state.status = FAILED
    /\ Len(state.validation_errors) >= 2

\* C4: when text extraction yields no text, the run ends with status Failed,
\* validation_errors = ["No text could be extracted from file"] and
\* retry_count = 0.
C4_NoTextEndsFailedWithMessage ==
    (Returned /\ Count("ocr:empty") = 1) =>
        /\ state.status = FAILED
        /\ state.validation_errors =
               <<Err("No text could be extracted from file", <<>>)>>
        /\ state.retry_count = 0

\* C5: a record whose status is Failed is routed straight to terminal
\* failure: it never reaches the retry step (so retry_count is not
\* incremented) nor the anomaly stage.
C5_FailedRecordSkipsRetryAndAnomaly ==
    state.status = FAILED => pc \notin {"retry", "anomaly"}

\* C6: a run that ends with status Failed ends with a non-empty
\* validation_errors holding the error of the failure that ended the run.
C6_FailedRunKeepsItsError ==
    (Returned /\ state.status = FAILED) =>
        /\ state.validation_errors # <<>>
        /\ state.validation_errors = emitted

\* C7: per run the text-extraction stage executes exactly once, the
\* field-extraction LLM is called at most 3 times, every call is made with
\* the raw_text text extraction produced, and no later stage changes raw_text.
C7_OneOcrAtMostThreeCallsSameText ==
    /\ [](/\ Count("ocr:ok") + Count("ocr:empty") + Count("ocr:raise")
                = (IF pc = "ocr" THEN 0 ELSE 1)
          /\ Len(llm_inputs) <= MaxRetries + 1
          /\ \A i \in 1..Len(llm_inputs) : llm_inputs[i] = state.raw_text)
    /\ [][pc # "ocr" => state'.raw_text = state.raw_text]_vars

C7_Witness ==
    /\ Returned
    /\ Len(llm_inputs) = MaxRetries + 1
    /\ state.raw_text # ""

\* C8: every run reaches END after a bounded number of stage executions,
\* whatever the backends and the LLM answer: no state other than END is
\* without a next stage, and no run executes more stages than the longest
\* path through the graph.
C8_EveryRunReachesEnd ==
    /\ Returned \/ ENABLED Next
    /\ Len(log) <= MaxStageExecutions

\* C9: whatever the services answer, no exception escapes the pipeline:
\* process_invoice returns a record.
C9_NoExceptionEscapes == pc # "raised"

\* C10: when the anomaly LLM call or the handling of its result raises for a
\* Validated record, the stage returns the record with anomaly_flags = [],
\* status Completed and every other field unchanged, and the run ends.
C10_AnomalyFailureIsAbsorbed ==
    [][(pc = "anomaly" /\ log' # log /\ log'[Len(log')] = "anomaly:raise") =>
          /\ state' = [state EXCEPT !.anomaly_flags = List(<<>>),
                                    !.status = COMPLETED]
          /\ pc' = "END"]_vars

C10_Witness ==
    /\ Returned
    /\ LastEvent = "anomaly:raise"
    /\ state.status = COMPLETED
    /\ state.anomaly_flags = List(<<>>)
    /\ state.retry_count = 2

\* C11: the anomaly stage calls the LLM only when the entering status is
\* Validated; for every other entering status it makes no LLM call and
\* returns the record unchanged, status and anomaly_flags included.
C11_AnomalyRunsOnlyWhenValidated ==
    [][pc = "anomaly" =>
          IF state.status = VALIDATED
          THEN anomaly_out' # NotCalled
          ELSE /\ anomaly_out' = NotCalled
               /\ state' = state
               /\ pc' = "END"]_vars

C11_Witness ==
    /\ Returned
    /\ LastEvent = "anomaly:skip"
    /\ state.status = EXTRACTED
    /\ anomaly_out = NotCalled

\* the markers of vendor-related anomalies
Markers ==
    {"vendor", "vendor name", "company name", "generic name", "suspicious name"}

\* the lower-cased text of the anomaly contains a marker
MentionsMarker(text) == \E m \in Markers : Contains(m, Lower(text))

RECURSIVE WithoutMarked(_)
\* the subsequence, in order, of the anomaly strings that mention no marker
WithoutMarked(q) ==
    IF q = <<>> THEN <<>>
    ELSE (IF MentionsMarker(q[1].str) THEN <<>> ELSE <<q[1]>>)
             \o WithoutMarked(Tail(q))

\* the lower-cased, trimmed name equals, is a substring of, or contains some
\* entry of the snapshot; never for an empty name or an empty snapshot
NameMatches(name, snapshot) ==
    /\ name # ""
    /\ snapshot # <<>>
    /\ \E i \in 1..Len(snapshot) :
           LET trimmed == Strip(Lower(name))
           IN  \/ trimmed = snapshot[i]
               \/ Contains(trimmed, snapshot[i])
               \/ Contains(snapshot[i], trimmed)

\* the vendor of the record is whitelisted in the snapshot
VendorMatches(vendor, snapshot) ==
    vendor.kind = "str" /\ NameMatches(vendor.str, snapshot)

\* the whitelist-filtered list of the reported anomalies
FilteredFor(reported, vendor, snapshot) ==
    IF VendorMatches(vendor, snapshot)
    THEN List(WithoutMarked(reported.items))
    ELSE reported

\* what the anomaly LLM reported, once the stage has run without raising
Reported == GetOr(anomaly_out.value.d.anomalies, List(<<>>))

NonEmptyList(v) == v.kind = "list" /\ v.items # <<>>

DetectionRan == Returned /\ LastEvent = "anomaly:ok"

\* C12: after the anomaly stage ran on a Validated record without raising,
\* anomaly_flags is the whitelist-filtered anomaly list, status is
\* AnomalyFlagged exactly when that list is non-empty and Completed exactly
\* when it is empty; no run ends Completed with non-empty anomaly_flags or
\* AnomalyFlagged with empty ones.
C12_StatusMatchesFilteredAnomalies ==
    /\ DetectionRan =>
           /\ state.anomaly_flags =
                  FilteredFor(Reported, state.vendor_name,
                              state.whitelisted_vendors)
           /\ state.status = ANOMALY_FLAGGED <=> NonEmptyList(state.anomaly_flags)
           /\ state.status = COMPLETED <=> ~NonEmptyList(state.anomaly_flags)
    /\ Returned =>
           /\ state.status = COMPLETED => ~NonEmptyList(state.anomaly_flags)
           /\ state.status = ANOMALY_FLAGGED => NonEmptyList(state.anomaly_flags)

C12_Witness ==
    /\ DetectionRan
    /\ NonEmptyList(Reported)
    /\ state.anomaly_flags = List(<<>>)
    /\ state.status = COMPLETED

\* C13: for a whitelisted vendor the filter returns exactly the subsequence,
\* in order, of the anomaly strings whose lower-cased text contains no
\* marker; for an absent or non-whitelisted vendor it returns the list
\* unchanged; vendor "Acme Corp" with whitelist ["acme"] and anomalies
\* ["Vendor name looks suspicious", "Duplicate invoice number"] gives
\* ["Duplicate invoice number"].
C13_FilterDropsExactlyMarkedAnomalies ==
    /\ pc = "anomaly" =>
           \A q \in SeqsUpTo(AnomalyTexts, MaxAnomalies) :
               _filter_vendor_anomalies(List(q), state.vendor_name,
                                        state.whitelisted_vendors)
                   = FilteredFor(List(q), state.vendor_name,
                                 state.whitelisted_vendors)
    /\ _filter_vendor_anomalies(
           List(<<Str("Vendor name looks suspicious"),
                  Str("Duplicate invoice number")>>),
           Str("Acme Corp"), <<"acme">>)
           = List(<<Str("Duplicate invoice number")>>)

C13_Witness ==
    /\ DetectionRan
    /\ state.vendor_name = Str("Acme Corp")
    /\ state.whitelisted_vendors = <<"acme">>
    /\ Reported = List(<<Str("Vendor name looks suspicious"),
                         Str("Duplicate invoice number")>>)
    /\ state.anomaly_flags = List(<<Str("Duplicate invoice number")>>)

\* the anomaly reports a math error or a duplicate invoice number
ReportsMathOrDuplicate(text) ==
    \/ Contains("math error", Lower(text))
    \/ Contains("duplicate invoice number", Lower(text))

\* C14: for a whitelisted vendor, an anomaly string that reports a math
\* error or a duplicate invoice number is always kept by the whitelist
\* filter: it stays in anomaly_flags and the status is AnomalyFlagged.
C14_MathAndDuplicateAnomaliesAreKept ==
    (/\ DetectionRan
     /\ VendorMatches(state.vendor_name, state.whitelisted_vendors)) =>
        \A i \in 1..Len(Reported.items) :
            ReportsMathOrDuplicate(Reported.items[i].str) =>
                /\ \E j \in 1..Len(state.anomaly_flags.items) :
                       state.anomaly_flags.items[j] = Reported.items[i]
                /\ state.status = ANOMALY_FLAGGED

\* C15: a vendor is treated as whitelisted if and only if its lower-cased,
\* trimmed name equals, is a substring of, or contains some entry of the
\* whitelist snapshot; with an absent or empty vendor name or an empty
\* snapshot the vendor is never whitelisted.
C15_WhitelistedIffNameMatches ==
    pc = "anomaly" =>
        /\ state.vendor_name.kind = "str" =>
               (_is_vendor_whitelisted(state.vendor_name.str,
                                       state.whitelisted_vendors)
                    <=> NameMatches(state.vendor_name.str,
                                    state.whitelisted_vendors))
        /\ (~Truthy(state.vendor_name) \/ state.whitelisted_vendors = <<>>) =>
               \A q \in SeqsUpTo(AnomalyTexts, MaxAnomalies) :
                   _filter_vendor_anomalies(List(q), state.vendor_name,
                                            state.whitelisted_vendors) = List(q)

C15_Witness ==
    /\ DetectionRan
    /\ state.vendor_name = Str(" ACME")
    /\ state.whitelisted_vendors = <<"acme corp ltd">>
    /\ Reported = List(<<Str("Vendor name looks suspicious")>>)
    /\ state.anomaly_flags = List(<<>>)

\* C16: the whitelist a run uses is the snapshot taken once before the
\* pipeline starts: when entries are added or deactivated while the run is
\* in progress the run's anomaly filtering still uses the snapshot, and no
\* stage reads the whitelist store.
C16_RunUsesItsWhitelistSnapshot ==
    /\ [](/\ state.whitelisted_vendors = Snapshot(args.whitelisted_vendors)
          /\ DetectionRan =>
                 state.anomaly_flags =
                     FilteredFor(Reported, state.vendor_name,
                                 Snapshot(args.whitelisted_vendors)))
    /\ [][whitelist_store' # whitelist_store =>
              /\ state' = state
              /\ pc' = pc
              /\ parked' = parked]_vars

\* the first run filtered with its snapshot after the entry was deactivated:
\* the second run was uploaded with the empty whitelist and has run since
C16_Witness ==
    /\ DetectionRan
    /\ args.file_path = "inv.pdf"
    /\ state.whitelisted_vendors = <<"acme">>
    /\ state.anomaly_flags = List(<<Str("Duplicate invoice number")>>)
    /\ whitelist_store = <<>>
    /\ parked # NoRun
    /\ parked.state.whitelisted_vendors = <<>>
    /\ parked.log # <<>>

\* the run r has the caller's inputs of its own call
KeepsOwnInputs(r) ==
    /\ r.state.file_path = r.args.file_path
    /\ r.state.whitelisted_vendors = Snapshot(r.args.whitelisted_vendors)

\* the run r, once its anomaly stage ran without raising, has the anomalies
\* its LLM reported, filtered with its own snapshot
FilteredWithOwnSnapshot(r) ==
    (r.pc = "END" /\ r.log[Len(r.log)] = "anomaly:ok") =>
        r.state.anomaly_flags =
            FilteredFor(GetOr(r.anomaly_out.value.d.anomalies, List(<<>>)),
                        r.state.vendor_name,
                        Snapshot(r.args.whitelisted_vendors))

\* C17: two pipeline runs on different documents whose stages interleave
\* arbitrarily each end with the record they would produce alone: no stage
\* of one run reads or writes the other run's record or whitelist snapshot.
C17_ConcurrentRunsAreIndependent ==
    /\ [](\A r \in {Run} \cup (IF parked = NoRun THEN {} ELSE {parked}) :
              KeepsOwnInputs(r) /\ FilteredWithOwnSnapshot(r))
    /\ [][parked # NoRun =>
              \/ parked' = parked
              \/ /\ parked' = Run
                 /\ state' = parked.state
                 /\ pc' = parked.pc
                 /\ anomaly_out' = parked.anomaly_out]_vars

\* both runs went through anomaly detection, interleaved, with different
\* snapshots and so with different flags for the same vendor and anomalies
C17_Witness ==
    /\ DetectionRan
    /\ args.file_path = "inv.pdf"
    /\ parked # NoRun
    /\ parked.pc = "END"
    /\ parked.log[Len(parked.log)] = "anomaly:ok"
    /\ parked.state.vendor_name = state.vendor_name
    /\ parked.anomaly_out = anomaly_out
    /\ parked.state.whitelisted_vendors # state.whitelisted_vendors
    /\ parked.state.anomaly_flags # state.anomaly_flags

\* the position of a status on Pending -> Extracted -> Validated ->
\* {AnomalyFlagged, Completed}
StatusRank(s) ==
    CASE s = PENDING -> 0
      [] s = EXTRACTED -> 1
      [] s = VALIDATED -> 2
      [] s \in {ANOMALY_FLAGGED, COMPLETED} -> 3

\* C18: within a run status never regresses: no stage moves a record to an
\* earlier status of Pending -> Extracted -> Validated -> {AnomalyFlagged,
\* Completed}, and once status is Failed no stage changes it.
C18_StatusNeverRegresses ==
    [][/\ state.status = FAILED => state'.status = FAILED
       /\ (state.status # FAILED /\ state'.status # FAILED) =>
              StatusRank(state'.status) >= StatusRank(state.status)]_vars

C18_Witness ==
    /\ Returned
    /\ state.status = COMPLETED
    /\ Count("retry") = 2
    /\ Count("extract:ok") = 3

\* C19: retry_count starts at 0, never decreases, changes only by +1 in the
\* retry step, and never exceeds 2.
C19_RetryCountGrowsOnlyInRetry ==
    /\ [](/\ pc = "ocr" => state.retry_count = 0
          /\ state.retry_count \in 0..2)
    /\ [][\/ state'.retry_count = state.retry_count
           \/ /\ pc = "retry"
              /\ state'.retry_count = state.retry_count + 1]_vars

C19_Witness ==
    /\ Returned
    /\ LastEvent = "failed"
    /\ state.retry_count = 2

\* C20: no stage changes the caller-supplied inputs: file_path,
\* is_tax_exempt, tax_exempt_reason and whitelisted_vendors have, in every
\* reachable state and in the final record, the values of the initial record
\* (whitelisted_vendors being the caller's list lower-cased and trimmed).
C20_CallerInputsAreNeverChanged ==
    /\ state.file_path = args.file_path
    /\ state.is_tax_exempt = args.is_tax_exempt
    /\ state.tax_exempt_reason = args.tax_exempt_reason
    /\ LET given == IF args.whitelisted_vendors.kind = "list"
                    THEN args.whitelisted_vendors.items
                    ELSE <<>>
       IN  /\ Len(state.whitelisted_vendors) = Len(given)
           /\ \A i \in 1..Len(given) :
                  state.whitelisted_vendors[i] = Strip(Lower(given[i]))

C20_Witness ==
    /\ Returned
    /\ state.retry_count = 2
    /\ state.file_path = "scan.png"
    /\ state.is_tax_exempt
    /\ state.tax_exempt_reason = Str("C2C services")
    /\ state.whitelisted_vendors = <<"acme">>

---------------------------------------------------------------------------
(* The rules of a validation pass                                          *)

\* the validation pass executed last returned (it did not raise)
ValidationReturned == LastEvent \in {"validate:ok", "validate:errors"}

\* how many of the record's validation errors carry one of the messages
ErrorsNamed(msgs) ==
    Cardinality({i \in 1..Len(state.validation_errors) :
                    state.validation_errors[i].msg \in msgs})

RequiredFields ==
    {"vendor_name", "invoice_number", "total_amount", "invoice_date"}

MissingMessage(f) ==
    CASE f = "vendor_name" -> "Missing vendor name"
      [] f = "invoice_number" -> "Missing invoice number"
      [] f = "total_amount" -> "Missing total amount"
      [] f = "invoice_date" -> "Missing invoice date"

\* C21: a validation pass on a record that is not Failed emits exactly one
\* 'missing' error for each of vendor_name, invoice_number, total_amount,
\* invoice_date that is absent, and none for a field that is present
\* (non-null), whatever its value.
C21_OneMissingErrorPerAbsentField ==
    ValidationReturned =>
        \A f \in RequiredFields :
            ErrorsNamed({MissingMessage(f)}) =
                IF state[f] = None THEN 1 ELSE 0

\* an error that reports a missing tax amount
MissingTaxMessages ==
    {m \in {state.validation_errors[i].msg :
                i \in 1..Len(state.validation_errors)} :
        Contains("missing", Lower(m)) /\ Contains("tax", Lower(m))}

\* C22: a validation pass emits a missing-tax error exactly when tax_amount
\* is absent and is_tax_exempt is false, so a record that is not exempt and
\* has no tax_amount never becomes Validated.
C22_MissingTaxErrorUnlessExempt ==
    /\ ValidationReturned =>
           ErrorsNamed(MissingTaxMessages) =
               IF state.tax_amount = None /\ ~state.is_tax_exempt
               THEN 1 ELSE 0
    /\ state.status = VALIDATED =>
           state.tax_amount # None \/ state.is_tax_exempt

\* the validation pass executed last returned or raised
ValidationRan ==
    LastEvent \in {"validate:ok", "validate:errors", "validate:raise"}

\* C23: a validation pass emits exactly one confidence error when
\* confidence_score is missing (null or absent from the LLM's answer) or
\* below 0.60, and none when it is at least 0.60; a missing score yields a
\* validation error in validation_errors like a score below the floor.
C23_ConfidenceErrorWhenMissingOrLow ==
    ValidationRan =>
        /\ (\/ state.confidence_score = None
            \/ /\ state.confidence_score.kind = "num"
               /\ state.confidence_score.num < 60)
           => /\ LastEvent = "validate:errors"
              /\ ErrorsNamed({"Low confidence score"}) = 1
        /\ (/\ state.confidence_score.kind = "num"
            /\ state.confidence_score.num >= 60
            /\ LastEvent # "validate:raise")
           => ErrorsNamed({"Low confidence score"}) = 0

\* an amount of the record is present
Present(v) == v # None

\* C24: when subtotal, tax_amount and total_amount are all present, a
\* validation pass emits exactly one totals-mismatch error iff
\* round(subtotal + tax_amount, 2) and round(total_amount, 2) differ by more
\* than 0.01 (more than one cent), the error naming the computed and the
\* actual total; when one of the three is absent it emits none.
C24_TotalsMismatchBeyondOneCent ==
    ValidationReturned =>
        LET mismatch ==
                /\ Present(state.subtotal)
                /\ Present(state.tax_amount)
                /\ Present(state.total_amount)
                /\ Abs(state.subtotal.num + state.tax_amount.num
                       - state.total_amount.num) > Cents(1)
        IN  /\ ErrorsNamed({"Total mismatch"}) = IF mismatch THEN 1 ELSE 0
            /\ \A i \in 1..Len(state.validation_errors) :
                   state.validation_errors[i].msg = "Total mismatch" =>
                       state.validation_errors[i].nums =
                           <<state.subtotal.num, state.tax_amount.num,
                             state.subtotal.num + state.tax_amount.num,
                             state.total_amount.num>>

\* C25: when the record has at least one line item and subtotal is present
\* (non-null, a subtotal of 0 included), a validation pass emits exactly one
\* line-items error iff the sum of the item totals differs from the subtotal
\* by more than 0.01; otherwise it emits none.
C25_LineItemsMismatchBeyondOneCent ==
    ValidationReturned =>
        LET mismatch ==
                /\ state.line_items # <<>>
                /\ Present(state.subtotal)
                /\ Abs(SumTotals(state.line_items) - state.subtotal.num)
                       > Cents(1)
        IN  ErrorsNamed({"Line items total does not match subtotal"}) =
                IF mismatch THEN 1 ELSE 0

NegativeAmountMessage(f) == "Negative amount detected in " \o f

\* C26: a record whose status is Validated, Completed or AnomalyFlagged has
\* no negative numeric field: subtotal, tax_amount and total_amount when
\* present, and every line item's quantity, unit_price and total, are >= 0;
\* and a validation pass emits one error for each of subtotal, tax_amount,
\* total_amount that is negative.
C26_ValidatedRecordHasNoNegativeNumber ==
    /\ state.status \in {VALIDATED, COMPLETED, ANOMALY_FLAGGED} =>
           /\ \A f \in {"subtotal", "tax_amount", "total_amount"} :
                  Present(state[f]) => state[f].num >= 0
           /\ \A i \in 1..Len(state.line_items) :
                  /\ state.line_items[i].quantity >= 0
                  /\ state.line_items[i].unit_price >= 0
                  /\ state.line_items[i].total >= 0
    /\ ValidationReturned =>
           \A f \in {"subtotal", "tax_amount", "total_amount"} :
               ErrorsNamed({NegativeAmountMessage(f)}) =
                   IF Present(state[f]) /\ state[f].num < 0 THEN 1 ELSE 0

\* the rule of validation_node an error message comes from
RuleNumber(m) ==
    CASE m \in {MissingMessage(f) : f \in RequiredFields} -> 1
      [] m = "Total mismatch" -> 2
      [] m \in {NegativeAmountMessage(f) :
                  f \in {"subtotal", "tax_amount", "total_amount"}} -> 3
      [] m = "Low confidence score" -> 4
      [] m = "Line items total does not match subtotal" -> 5

InRuleOrder(errors) ==
    \A i, j \in 1..Len(errors) :
        i < j => RuleNumber(errors[i].msg) <= RuleNumber(errors[j].msg)

\* the fields of the record other than status and validation_errors
OtherFields == DOMAIN state \ {"status", "validation_errors"}

\* C27: a validation pass that emits no error returns status Validated and
\* validation_errors = []; one that emits errors returns exactly the emitted
\* list (all rules applied, in rule order) and leaves the status unchanged;
\* either way every other field is unchanged and no external service is
\* called; a record entering as Failed is returned unchanged.
C27_ValidationChangesOnlyStatusAndErrors ==
    [][(pc = "validate" /\ pc' # "raised") =>
          /\ llm_inputs' = llm_inputs
          /\ anomaly_out' = anomaly_out
          /\ whitelist_store' = whitelist_store
          /\ state.status = FAILED => state' = state
          /\ state.status # FAILED =>
                /\ \A f \in OtherFields : state'[f] = state[f]
                /\ \E fp \in ValidateFp :
                       state'.validation_errors = ValidationErrors(state, fp)
                /\ InRuleOrder(state'.validation_errors)
                /\ state'.status =
                       IF state'.validation_errors = <<>> THEN VALIDATED
                       ELSE state.status]_vars

C27_Witness ==
    /\ LastEvent = "validate:errors"
    /\ state.status = EXTRACTED
    /\ ErrorsNamed({"Missing vendor name"}) = 1
    /\ ErrorsNamed({"Low confidence score"}) = 0
    /\ Len(state.validation_errors) >= 2

---------------------------------------------------------------------------
(* The retry controller and the stages around validation                   *)

\* C28: for a record whose status is not Failed the decision of should_retry
\* is 'proceed' (to anomaly detection) iff validation_errors is empty,
\* otherwise 'retry' iff retry_count < 2, otherwise 'failed'; the failed step
\* then sets status Failed and leaves validation_errors and every other
\* field unchanged.
C28_ControllerDecisionAndFailedStep ==
    [][/\ (pc = "validate" /\ pc' # "raised" /\ state'.status # FAILED) =>
             pc' = IF state'.validation_errors = <<>> THEN "anomaly"
                   ELSE IF state'.retry_count < 2 THEN "retry"
                   ELSE "failed"
       /\ pc = "failed" =>
             /\ pc' = "END"
             /\ state'.status = FAILED
             /\ state'.validation_errors = state.validation_errors
             /\ \A f \in OtherFields : state'[f] = state[f]]_vars

C28_Witness ==
    /\ Returned
    /\ LastEvent = "failed"
    /\ Count("validate:errors") = 3
    /\ state.status = FAILED
    /\ state.validation_errors = emitted
    /\ ErrorsNamed({"Total mismatch"}) = 1

\* the fields field extraction fills in
ExtractedFields ==
    {"vendor_name", "invoice_number", "invoice_date", "line_items",
     "subtotal", "tax_amount", "total_amount", "confidence_score"}

\* the values of the extracted fields: null for an absent or null entry, 0
\* for an absent confidence, and the number of line items
Scalars == {"vendor_name", "invoice_number", "invoice_date",
            "subtotal", "tax_amount", "total_amount"}

AnswerValues(d) ==
    [scalars |-> [f \in Scalars |-> IF d[f] = Missing THEN None ELSE d[f]],
     confidence_score |-> IF d.confidence_score = Missing THEN Num(0)
                          ELSE d.confidence_score,
     line_count |-> IF d.line_items.kind = "list"
                    THEN Len(d.line_items.items) ELSE 0]

StoredValues(st) ==
    [scalars |-> [f \in Scalars |-> st[f]],
     confidence_score |-> st.confidence_score,
     line_count |-> Len(st.line_items)]

\* what the record can hold after an answer of the LLM was stored
AnswersValues == {AnswerValues(d) : d \in ResultDicts}

C30_OcrFailsWithOneMessageOrStoresTrimmedText ==
    [][pc = "ocr" =>
          /\ \A f \in OtherFields \ {"raw_text"} : state'[f] = state[f]
          /\ \/ /\ LastEvent' \in {"ocr:raise", "ocr:empty"}
                /\ state'.status = FAILED
                /\ state'.raw_text = ""
                /\ Len(state'.validation_errors) = 1
             \/ /\ LastEvent' = "ocr:ok"
                /\ state'.status = state.status
                /\ state'.validation_errors = state.validation_errors
                /\ state'.raw_text # ""
                /\ \E o \in BackendOutcomes :
                       /\ o.kind = "text"
                       /\ state'.raw_text = Strip(o.text)]_vars

C30_Witness ==
    /\ log = <<"ocr:empty">>
    /\ state.status = FAILED
    /\ state.raw_text = ""
    /\ state.validation_errors =
           <<Err("No text could be extracted from file", <<>>)>>
    /\ state.retry_count = 0

---------------------------------------------------------------------------
(* The line-item helpers                                                   *)

\* the subtotal of the answer as a number, when float() accepts it
ProbeSubtotal == probe.subtotal.num

Rows == Len(probe.items)

\* the last helper applied was the subtotal reconciliation
Reconciled == probe.kind = "line_items" /\ probe.last = "subtotal"

\* the rows before the last are untouched, the last keeps its description
\* and quantity, and a total that was written is not negative
ReconciliationFrame ==
    /\ Rows = Len(probe.before)
    /\ \A i \in 1..(Rows - 1) : probe.items[i] = probe.before[i]
    /\ Rows > 0 =>
          /\ probe.items[Rows].description = probe.before[Rows].description
          /\ probe.items[Rows].quantity = probe.before[Rows].quantity
          /\ probe.items[Rows].total # probe.before[Rows].total
                 => probe.items[Rows].total >= 0

\* subtotal minus the totals of the rows before the last, in model units
LastRowRemainder ==
    ProbeSubtotal - SumTotals(SubSeq(probe.before, 1, Rows - 1))

HasSubtotalNumber == probe.subtotal.kind \in {"num", "numstr"}

\* C31 as stated: subtotal reconciliation never changes a row but the last
\* and never produces a negative total; when subtotal minus the other rows'
\* totals is negative the list is returned unchanged; otherwise only the
\* last row's total and unit_price change.
C31_UnchangedWhenRemainderNegative ==
    Reconciled =>
        /\ ReconciliationFrame
        /\ (Rows > 0 /\ HasSubtotalNumber /\ LastRowRemainder < 0)
              => probe.items = probe.before

\* C31 amended: subtotal reconciliation never changes a row but the last and
\* never produces a negative total; when subtotal minus the other rows'
\* totals, rounded to the cent, is negative the list is returned unchanged;
\* otherwise only the last row's total and unit_price change.
C31_ReconciliationTouchesOnlyLastRow ==
    Reconciled =>
        /\ ReconciliationFrame
        /\ (/\ Rows > 0
            /\ HasSubtotalNumber
            /\ Round2(LastRowRemainder, probe.fp.half) < 0)
              => probe.items = probe.before

\* the last of two rows was rewritten to 0; and a remainder of minus one
\* cent left the list alone
C31_Witness ==
    /\ Reconciled
    /\ Rows = 2
    /\ probe.items[1] = probe.before[1]
    /\ \/ /\ probe.before[2].total = Cents(3)
          /\ probe.items[2].total = 0
          /\ probe.items[1].total = Cents(3)
          /\ probe.subtotal = Money(3)
       \/ /\ probe.subtotal = Money(0)
          /\ probe.before[1].total = Cents(1)
          /\ probe.before[2].total = Cents(3)
          /\ probe.items = probe.before

\* total = round(quantity * unit_price, 2) with all three positive
Consistent(it) ==
    /\ it.quantity > 0
    /\ it.unit_price > 0
    /\ it.total > 0
    /\ it.total = Round2(it.quantity * it.unit_price, probe.fp.half)

\* C32: line-item math repair is idempotent: applied to its own output it
\* returns that output unchanged, and applied to items that are already
\* consistent (total = round(quantity * unit_price, 2), all positive) it
\* changes nothing.
C32_MathRepairIdempotent ==
    [][FixLineItemMath =>
          ((\/ probe.last = "math"
            \/ \A i \in 1..Rows : Consistent(probe.items[i]))
             => probe'.items = probe.items)]_vars

\* a second application on a list whose first row the first application
\* repaired (total 0 became quantity * unit_price)
C32_Witness ==
    /\ probe.kind = "line_items"
    /\ probe.last = "math"
    /\ Rows = 2
    /\ probe.before = probe.items
    /\ probe.items[1] = Item(2, Cents(1), Cents(2))
    /\ probe.items[2] = Item(2, 1, Cents(1))

\* C35: math repair, for an item with quantity > 0: a total of 0 with
\* unit_price > 0 becomes round(quantity * unit_price, 2); a unit_price of 0
\* with total > 0 becomes round(total / quantity, 2); items with
\* quantity <= 0 and items where neither holds are returned unchanged;
\* description, quantity, item count and order are never changed.
C35_MathRepairRules ==
    [][FixLineItemMath =>
          /\ Len(probe'.items) = Rows
          /\ \A i \in 1..Rows :
                LET it == probe.items[i]
                    fixed == probe'.items[i]
                IN  /\ fixed.description = it.description
                    /\ fixed.quantity = it.quantity
                    /\ IF it.quantity > 0 /\ it.total = 0 /\ it.unit_price > 0
                       THEN /\ fixed.total
                                 = Round2(it.quantity * it.unit_price,
                                          probe.fp.half)
                            /\ fixed.unit_price = it.unit_price
                       ELSE IF it.quantity > 0 /\ it.unit_price = 0
                                               /\ it.total > 0
                       THEN /\ fixed.unit_price
                                 = RoundQuotient2(it.total, it.quantity,
                                                  probe.fp.half)
                            /\ fixed.total = it.total
                       ELSE fixed = it]_vars

\* one row had its total filled in, the other its unit price, and the
\* quotient of the second lay half-way between two cents
C35_Witness ==
    /\ probe.kind = "line_items"
    /\ probe.last = "math"
    /\ probe.before = <<Item(2, Cents(1), 0), Item(2, 0, Cents(1))>>
    /\ probe.items[1] = Item(2, Cents(1), Cents(2))
    /\ probe.items[2] = Item(2, Cents(1), Cents(1))

\* what the reconciliation writes when it is applied: the last row gets the
\* remainder rounded to the cent, unless that is negative
ReconciliationApplied ==
    LET total == Round2(LastRowRemainder, probe.fp.half)
    IN  IF total < 0 THEN probe.items = probe.before
        ELSE /\ probe.items[Rows].total = total
             /\ SubSeq(probe.items, 1, Rows - 1)
                    = SubSeq(probe.before, 1, Rows - 1)

\* C34: subtotal reconciliation is applied exactly when the sum of the
\* line-item totals differs from the declared subtotal by more than 0.02;
\* with a difference of 0.02 or less (exactly 0.02 included), with no line
\* items or with no subtotal the list is returned unchanged.
C34_ReconciledOnlyBeyondTwoCents ==
    Reconciled =>
        IF /\ Rows > 0
           /\ HasSubtotalNumber
           /\ Abs(SumTotals(probe.before) - ProbeSubtotal) > Cents(2)
        THEN ReconciliationApplied
        ELSE probe.items = probe.before

\* the first value among `values` that is not None, as a number when it is
\* one, else the default
KeptOrDefault(values, default) ==
    LET given == SelectSeq(values, LAMBDA v : v # None)
    IN  IF given # <<>> /\ CanFloat(given[1]) THEN given[1].num ELSE default

DictEntries == SelectSeq(probe.value.items, LAMBDA x : x.kind = "dict")

\* C36: normalisation, before the math repair, yields one item per dict
\* entry of line_items, in order, with the fields description, quantity,
\* unit_price and total: the value under an alternate key (amount, qty,
\* rate, price) is used when the primary key is absent; a missing or
\* non-numeric value becomes the default (quantity 1, unit_price 0,
\* total 0); a numeric value under a recognised key, 0 included, is kept.
C36_NormalisationKeepsGivenNumbers ==
    (probe.kind = "line_items" /\ probe.last = "normalize"
                              /\ probe.value.kind = "list") =>
        /\ Len(probe.out) = Len(DictEntries)
        /\ \A i \in 1..Len(probe.out) :
              LET d == DictEntries[i].d
                  item == probe.out[i]
              IN  /\ DOMAIN item
                        = {"description", "quantity", "unit_price", "total"}
                  /\ item.quantity
                        = KeptOrDefault(<<Get(d.quantity), Get(d.qty)>>, 1)
                  /\ item.unit_price
                        = KeptOrDefault(<<Get(d.unit_price), Get(d.rate),
                                          Get(d.price)>>, 0)
                  /\ item.total
                        = KeptOrDefault(<<Get(d.total), Get(d.amount)>>, 0)

\* C39: whenever the reconciliation rewrites the last line item, the sum of
\* the totals afterwards equals the declared subtotal to the cent, and
\* validation of that list against that subtotal gives no line-items error,
\* whatever the float outcomes of the validation pass.
C39_ReconciledListPassesLineItemsRule ==
    (Reconciled /\ probe.items # probe.before /\ probe.subtotal.kind = "num") =>
        /\ Abs(SumTotals(probe.items) - ProbeSubtotal) < Cents(1)
        /\ \A fp \in ValidateFp :
              Rule5([line_items |-> probe.items, subtotal |-> probe.subtotal],
                    fp) = <<>>

---------------------------------------------------------------------------
(* The upload handler                                                      *)

Responded == pc = "responded"

PipelineRaised == LastEvent = "validate:raise"

\* C33: if process_invoice raises during upload_and_process_invoice, the
\* row that was created as PENDING before the pipeline ran is updated
\* exactly once, to FAILED with a validation error carrying the exception
\* message, and the call ends with HTTP 500; the row is never left PENDING.
C33_PipelineExceptionMarksRowFailed ==
    /\ ~Responded =>
          /\ upload.row.status = PENDING
          /\ upload.updates = 0
          /\ upload.response = 0
    /\ (Responded /\ PipelineRaised) =>
          /\ upload.updates = 1
          /\ upload.row.status = FAILED
          /\ Len(upload.row.validation_errors) = 1
          /\ Contains(ExceptionText(state), upload.row.validation_errors[1])
          /\ upload.response = 500
    /\ Responded => upload.row.status # PENDING

\* the second attempt's answer had no confidence score, validation raised
\* and the handler answered 500
C33_Witness ==
    /\ Responded
    /\ PipelineRaised
    /\ state.retry_count = 1
    /\ upload.response = 500
    /\ upload.row.status = FAILED
    /\ upload.row.validation_errors =
          <<"Pipeline error: '<' not supported between instances of 'NoneType' and 'float'">>

---------------------------------------------------------------------------
(* The retry step and the end of a run                                     *)

\* C37: the retry step increments retry_count by exactly 1 and sets
\* validation_errors to the empty list and changes nothing else: status,
\* raw_text, the extracted fields, anomaly_flags and the caller-supplied
\* inputs are the same before and after it.
C37_RetryChangesOnlyCountAndErrors ==
    [][pc = "retry" =>
          /\ state'.retry_count = state.retry_count + 1
          /\ state'.validation_errors = <<>>
          /\ state'.status = state.status
          /\ state'.raw_text = state.raw_text
          /\ \A f \in ExtractedFields : state'[f] = state[f]
          /\ state'.anomaly_flags = state.anomaly_flags
          /\ \A f \in {"file_path", "is_tax_exempt", "tax_exempt_reason",
                        "whitelisted_vendors"} : state'[f] = state[f]
          /\ \A f \in DOMAIN state \ {"retry_count", "validation_errors"} :
                 state'[f] = state[f]
          /\ args' = args]_vars

\* the first retry of a record that was extracted without a vendor and
\* failed validation: the text and the other fields are still there
C37_Witness ==
    /\ LastEvent = "retry"
    /\ pc = "extract"
    /\ state.retry_count = 1
    /\ state.validation_errors = <<>>
    /\ state.status = EXTRACTED
    /\ state.raw_text # ""
    /\ state.vendor_name = None
    /\ state.invoice_number = Str("INV-1")
    /\ state.total_amount = Money(2)

\* the last three steps of the run: extraction answered, validation passed,
\* the anomaly stage ran
EndsValidated ==
    /\ Len(log) >= 3
    /\ log[Len(log) - 2] = "extract:ok"
    /\ log[Len(log) - 1] = "validate:ok"
    /\ log[Len(log)] \in {"anomaly:ok", "anomaly:raise"}

\* C40: a run that ends Completed or AnomalyFlagged carries a record that
\* passed validation on its last extraction attempt: validation_errors is
\* empty, vendor_name, invoice_number, invoice_date and total_amount are
\* present, confidence_score >= 0.60, and the anomaly stage changed nothing
\* but anomaly_flags and status; no record gets there without having been
\* Validated.
C40_FinishedRecordPassedValidation ==
    /\ []((Returned /\ state.status \in {COMPLETED, ANOMALY_FLAGGED}) =>
            /\ EndsValidated
            /\ state.validation_errors = <<>>
            /\ \A f \in RequiredFields : Truthy(state[f])
            /\ state.confidence_score.kind = "num"
            /\ state.confidence_score.num >= ConfidenceFloor)
    /\ [][pc = "anomaly" =>
            /\ \A f \in DOMAIN state \ {"anomaly_flags", "status"} :
                   state'[f] = state[f]
            /\ state'.status \in {COMPLETED, ANOMALY_FLAGGED}
                   => state.status = VALIDATED]_vars

\* a run that ended AnomalyFlagged after one retry
C40_Witness ==
    /\ Returned
    /\ state.status = ANOMALY_FLAGGED
    /\ state.retry_count = 1
    /\ state.anomaly_flags # <<>>
    /\ EndsValidated

---------------------------------------------------------------------------
(* The order of the text-extraction backends                               *)

\* the file is a PDF, whatever the case of its extension
IsPdf(path) == EndsWith(Lower(path), ".pdf")

\* the backend answered text that is not empty after trimming
Yields(outcome) == outcome.kind = "text" /\ Strip(outcome.text) # ""

\* the backend ends the search: it yielded text, or it raised
Ends(outcome) == outcome.kind = "raise" \/ Yields(outcome)

\* the backends in the documented order, up to the first that ends the search
DocumentedCalls ==
    LET cfg == probe.cfg
        env == probe.env
        eng == IF cfg.OCR_USE_VISION_LLM /\ cfg.OLLAMA_VISION_MODEL # ""
               THEN "vision_llm" ELSE "tesseract"
        layout == cfg.OCR_USE_DOCLING /\ cfg.docling_injected
        first == IF layout THEN <<"docling">> ELSE <<>>
    IN  IF layout /\ Ends(env.docling) THEN first
        ELSE IF IsPdf(state.file_path)
        THEN IF Ends(env.text_layer) THEN first \o <<"pdfplumber">>
             ELSE first \o <<"pdfplumber", "pdf_pages_" \o eng>>
        ELSE first \o <<"image_" \o eng>>

\* what the backend called last answered
LastAnswer ==
    LET last == probe.calls[Len(probe.calls)]
    IN  IF last = "docling" THEN probe.env.docling
        ELSE IF last = "pdfplumber" THEN probe.env.text_layer
        ELSE IF last \in {"pdf_pages_tesseract", "pdf_pages_vision_llm"}
        THEN probe.env.page_ocr
        ELSE probe.env.image_ocr

\* C38: the text-extraction backends are tried in the documented order and
\* the first result that is non-empty after trimming becomes raw_text: the
\* layout-aware backend first when it is configured and injected; for a PDF
\* the text-layer reader next, and page rendering with OCR or the vision
\* LLM only if the text layer is empty; for an image OCR or the vision LLM
\* directly; no backend is called after one that yielded text.
C38_BackendsInDocumentedOrder ==
    (probe.kind = "ocr" /\ pc = "extract") =>
        /\ probe.calls = DocumentedCalls
        /\ \A i \in 1..(Len(probe.calls) - 1) :
               probe.calls[i] = "docling" => ~Yields(probe.env.docling)
        /\ state.status # FAILED =>
               /\ Yields(LastAnswer)
               /\ state.raw_text = Strip(LastAnswer.text)

====
